---- MODULE Spec2Model ----
(***************************************************************************)
(* A model of DashbotConnection (src/src/connection.ts): the socket        *)
(* lifecycle, the two-channel subscribe handshake, inbound frame routing,  *)
(* outbound send gating and reconnect scheduling.                          *)
(*                                                                         *)
(* The WebSocket layer and the timer queue are the environment.  A socket  *)
(* is OPEN from construction (as the test double is), CLOSING once close() *)
(* was called on it and CLOSED once its close event was dispatched.  The   *)
(* handlers connect() attaches are never detached by the code, so every    *)
(* socket ever created keeps delivering its events to the connection.      *)
(* Message events are delivered for OPEN sockets only; the close event is  *)
(* delivered once per socket, for a server/transport close (OPEN) or after *)
(* close() (CLOSING).                                                      *)
(*                                                                         *)
(* Each step is one run-to-completion handler of the event loop.  What the *)
(* handler wrote with ws.send and which callbacks it invoked are recorded  *)
(* in emitted and invoked, which describe the latest step only.            *)
(***************************************************************************)
EXTENDS Integers, Sequences, FiniteSets, TLC

\* ---------------------------------------------------------------- bounds
MaxSockets == 3
MaxInflight == 1
MaxCalls == 3
MaxLen == 3
MaxChunks == MaxLen + 2

\* ------------------------------------------------------------- constants
CHAT_IDENTIFIER == "{\"channel\":\"ChatChannel\"}"
CARDS_IDENTIFIER == "{\"channel\":\"CardsChannel\"}"
OTHER_IDENTIFIER == "{\"channel\":\"OtherChannel\"}"
RECONNECT_DELAY == 3000

Undefined == "undefined"
NoSocket == 0
NoTimer == 0

SocketIds == 1..MaxSockets
Identifiers == {CHAT_IDENTIFIER, CARDS_IDENTIFIER, OTHER_IDENTIFIER}

\* ------------------------------------------------------------ input sets
Contents == {"Hello back", "second reply"}
Metadatas == {Undefined, "{model:test}"}
StatusDatas == {"{agent:idle}", "{agent:running}"}

\* CableMessage: the inner payload of a broadcast.
CableMessages ==
    { [type |-> "message", role |-> "user"],
      [type |-> "status_requested", role |-> Undefined] }
NoMessage == [type |-> Undefined, role |-> Undefined]
PingPayload == [type |-> "epoch", role |-> Undefined]

\* CableIncoming: a parsed inbound frame.  keys is the set of properties the
\* object has; a property outside keys reads as undefined.
Frame(keys, type, identifier, message) ==
    [keys |-> keys, type |-> type, identifier |-> identifier, message |-> message]

WelcomeFrame == Frame({"type"}, "welcome", Undefined, NoMessage)
ConfirmFrame(id) ==
    Frame({"type", "identifier"}, "confirm_subscription", id, NoMessage)
ConfirmNoIdFrame == Frame({"type"}, "confirm_subscription", Undefined, NoMessage)
PingFrame == Frame({"type", "message"}, "ping", Undefined, PingPayload)
UnknownTypeFrame == Frame({"type"}, "disconnect", Undefined, NoMessage)
BroadcastFrame(id, m) == Frame({"identifier", "message"}, Undefined, id, m)
IdentifierOnlyFrame == Frame({"identifier"}, Undefined, CHAT_IDENTIFIER, NoMessage)
EmptyFrame == Frame({}, Undefined, Undefined, NoMessage)

InboundFrames ==
    {WelcomeFrame, ConfirmNoIdFrame, PingFrame, UnknownTypeFrame,
     IdentifierOnlyFrame, EmptyFrame}
    \cup {ConfirmFrame(id) : id \in Identifiers}
    \cup {BroadcastFrame(id, m) : id \in Identifiers, m \in CableMessages}

NoFrame == Frame({}, "none", Undefined, NoMessage)

\* DashbotConfig.  A url is the sequence of its characters, with the scheme
\* and the host each written as one element.
BaseUrl == <<"https", ":", "/", "/", "dashbot.example.com">>
Configs ==
    { [url |-> BaseUrl, token |-> "test-token"],
      [url |-> BaseUrl \o <<"/">>, token |-> "test-token"] }
NoConfig == [url |-> <<>>, token |-> Undefined]

\* CardPayload
CardPayloads ==
    { [type |-> Undefined, prompt |-> "Deploy?", message |-> Undefined,
       options |-> "[yes,no]", metadata |-> Undefined],
      [type |-> "choice", prompt |-> "Pick one", message |-> "details",
       options |-> "[a,b]", metadata |-> "{source:cron}"] }
NoCard == [type |-> Undefined, prompt |-> Undefined, message |-> Undefined,
           options |-> Undefined, metadata |-> Undefined]

\* What a fetch call ends with: a Response, or an exception.  readable says
\* whether the body can be read, json whether it parses as JSON, cardId is
\* card.id of the parsed body.
HttpOutcome(kind, ok, status, readable, json, text, cardId) ==
    [kind |-> kind, ok |-> ok, status |-> status, readable |-> readable,
     json |-> json, text |-> text, cardId |-> cardId]
Created201 == HttpOutcome("response", TRUE, "201", TRUE, TRUE, "{card:{id:7}}", "7")
Created201NoCard == HttpOutcome("response", TRUE, "201", TRUE, TRUE, "{}", Undefined)
Ok200NotJson == HttpOutcome("response", TRUE, "200", TRUE, FALSE, "<html>", Undefined)
Unauthorized401 ==
    HttpOutcome("response", FALSE, "401", TRUE, FALSE, "Unauthorized", Undefined)
BadGateway502Cut ==
    HttpOutcome("response", FALSE, "502", FALSE, FALSE, Undefined, Undefined)
NetworkError ==
    HttpOutcome("exception", FALSE, Undefined, FALSE, FALSE, "Error: Network error",
                Undefined)
HttpOutcomes ==
    {Created201, Created201NoCard, Ok200NotJson, Unauthorized401,
     BadGateway502Cut, NetworkError}
NoOutcome ==
    HttpOutcome("none", FALSE, Undefined, FALSE, FALSE, Undefined, Undefined)

\* StatusReporter inputs.
INTERVAL_MS == 15000
NoCallback == "null"
TestCallbacks == {"cb1", "cb2"}
GatherThrows == "disk error"
GatherOutcomes == StatusDatas \cup {GatherThrows}

\* The inputs of a step that lastCall has no field for.
Args(conn, config, card, response, cb, gather, cbThrows) ==
    [conn |-> conn, config |-> config, card |-> card, response |-> response,
     cb |-> cb, gather |-> gather, cbThrows |-> cbThrows]
NoArgs == Args(FALSE, NoConfig, NoCard, NoOutcome, NoCallback, Undefined, FALSE)

\* The config a DashbotConnection is constructed with.  A URL is a sequence of
\* its parts, a token a sequence of characters and runs of unreserved ones.
InvalidHost == "dash bot"
BaseUrls ==
    { <<"https", ":", "/", "/", "dashbot.example.com">>,
      <<"https", ":", "/", "/", "dashbot.example.com", "/">>,
      <<"http", ":", "/", "/", "localhost:3000">>,
      <<"http", ":", "/", "/", "localhost:3000", "/">>,
      <<"https", ":", "/", "/", InvalidHost>> }
Tokens == { <<"test-token">>, <<"a", "&", "b", "=", " ", "/">> }
ConnectionConfigs == {[url |-> u, token |-> k] : u \in BaseUrls, k \in Tokens}
TestConfig == [url |-> BaseUrl, token |-> <<"test-token">>]

\* What a call hands back: a return value, or the exception it throws.
Returns(value) == [value |-> value, thrown |-> Undefined]
Throws(error) == [value |-> Undefined, thrown |-> error]
NoReturn == Returns(Undefined)

\* event.data of a message event that does not parse to a frame object, with
\* what JSON.parse makes of it.
RawPayload(text, parsed) == [text |-> text, parsed |-> parsed]
RawPayloads ==
    { RawPayload("not json", "SyntaxError"),
      RawPayload("null", "null"),
      RawPayload("42", "number"),
      RawPayload("\"hi\"", "string"),
      RawPayload("[]", "array") }

\* ------------------------------------------------------------------ JSON
\* JSON.stringify of an object literal: the properties in insertion order,
\* a property whose value is undefined left out.
RECURSIVE JSONStringify(_, _)
JSONStringify(keys, obj) ==
    IF keys = <<>> THEN <<>>
    ELSE LET k == Head(keys)
             rest == JSONStringify(Tail(keys), obj)
         IN IF obj[k] = Undefined THEN rest ELSE <<<<k, obj[k]>>>> \o rest

\* Reading property k of JSON.parse(text): undefined when the text lacks it.
JSONGet(text, k) ==
    IF \E i \in 1..Len(text) : text[i][1] = k
    THEN LET i == CHOOSE j \in 1..Len(text) : text[j][1] = k IN text[i][2]
    ELSE Undefined

\* CableCommand on the wire.  data is <<>> when the command has no data
\* property and <<text>> when it carries the stringified inner envelope.
CableCommand(command, identifier, data) ==
    [command |-> command, identifier |-> identifier, data |-> data]

\* ------------------------------------------------------ channel.ts config
\* A config object is a function from its own keys; {} has none.
DEFAULT_ACCOUNT_ID == "default"
EmptyObject == [k \in {} |-> Undefined]

\* obj[k] ?? {}
ObjectAt(obj, k) == IF k \in DOMAIN obj THEN obj[k] ELSE EmptyObject

\* { ...obj, [k]: v }
Spread(obj, k, v) ==
    [x \in DOMAIN obj \cup {k} |-> IF x = k THEN v ELSE obj[x]]

\* String(obj[k] ?? "")
StringAt(obj, k) == IF k \in DOMAIN obj THEN obj[k] ELSE <<>>

\* obj.enabled !== false
EnabledAt(obj) == IF "enabled" \in DOMAIN obj THEN obj["enabled"] # FALSE ELSE TRUE

\* String.prototype.trim on a sequence of characters and runs of them.
RECURSIVE TrimStart(_)
TrimStart(s) ==
    IF s # <<>> /\ Head(s) = " " THEN TrimStart(Tail(s)) ELSE s
RECURSIVE TrimEnd(_)
TrimEnd(s) ==
    IF s # <<>> /\ s[Len(s)] = " " THEN TrimEnd(SubSeq(s, 1, Len(s) - 1)) ELSE s
Trim(s) == TrimEnd(TrimStart(s))

getDashbotChannelConfig(cfg) == ObjectAt(ObjectAt(cfg, "channels"), "dashbot")

\* resolveAccount(cfg, accountId)
resolveAccount(cfg, accountId) ==
    LET channelCfg == getDashbotChannelConfig(cfg)
        source == IF accountId # DEFAULT_ACCOUNT_ID
                  THEN ObjectAt(ObjectAt(channelCfg, "accounts"), accountId)
                  ELSE channelCfg
    IN [accountId |-> accountId,
        name |-> IF accountId = DEFAULT_ACCOUNT_ID THEN <<"DashBot">>
                 ELSE <<"DashBot (", accountId, ")">>,
        enabled |-> EnabledAt(source),
        url |-> StringAt(source, "url"),
        token |-> StringAt(source, "token"),
        config |-> [url |-> StringAt(source, "url"),
                    token |-> StringAt(source, "token"),
                    enabled |-> EnabledAt(source)]]

\* config.isConfigured testing its fields as they are.
isConfigured_NoTrim(account) == account.url # <<>> /\ account.token # <<>>

\* config.isConfigured: Boolean(account.url?.trim() && account.token?.trim())
isConfigured(account) == Trim(account.url) # <<>> /\ Trim(account.token) # <<>>

\* config.isEnabled
isEnabled(account) == account.enabled # FALSE

\* setAccountEnabled writing the flag of every account at the top level.
setAccountEnabled_TopLevel(cfg, accountId, enabled) ==
    LET channels == ObjectAt(cfg, "channels")
        dashbot == ObjectAt(channels, "dashbot")
    IN Spread(cfg, "channels",
              Spread(channels, "dashbot", Spread(dashbot, "enabled", enabled)))

\* config.setAccountEnabled({ cfg, accountId, enabled })
setAccountEnabled(cfg, accountId, enabled) ==
    LET channels == ObjectAt(cfg, "channels")
        dashbot == ObjectAt(channels, "dashbot")
    IN IF accountId # DEFAULT_ACCOUNT_ID
       THEN LET accounts == ObjectAt(dashbot, "accounts")
                acct == ObjectAt(accounts, accountId)
            IN Spread(cfg, "channels",
                 Spread(channels, "dashbot",
                   Spread(dashbot, "accounts",
                     Spread(accounts, accountId,
                            Spread(acct, "enabled", enabled)))))
       ELSE Spread(cfg, "channels",
              Spread(channels, "dashbot", Spread(dashbot, "enabled", enabled)))

\* The configs of the tests and their variations: no channels, no dashbot
\* block, a single account, named accounts, blank and missing fields.
SingleAccount ==
    [enabled |-> TRUE, url |-> BaseUrl, token |-> <<"test-token">>]
MultiAccount ==
    [enabled |-> TRUE, url |-> BaseUrl, token |-> <<"prod-token">>,
     accounts |->
       [dev |-> [url |-> <<"http", ":", "/", "/", "localhost:3000">>,
                 token |-> <<"dev-token">>],
        staging |-> [url |-> <<"https", ":", "/", "/",
                             "staging.dashbot.example.com">>,
                     token |-> <<"staging-token">>, enabled |-> FALSE]]]
DashbotBlocks ==
    { EmptyObject,
      SingleAccount,
      MultiAccount,
      [enabled |-> FALSE, url |-> <<" ", " ">>, token |-> <<" ", "t", " ">>],
      [url |-> BaseUrl,
       accounts |-> [dev |-> [url |-> <<" ", "u">>, token |-> <<" ">>,
                              enabled |-> TRUE]]],
      [token |-> <<"test-token">>, accounts |-> EmptyObject] }
Cfgs ==
    {EmptyObject, [channels |-> EmptyObject]}
    \cup {[channels |-> [dashbot |-> d]] : d \in DashbotBlocks}
    \cup {[gateway |-> "port:18789",
           channels |-> [slack |-> "xoxb", dashbot |-> d]] : d \in DashbotBlocks}
TestCfg == [channels |-> [dashbot |-> SingleAccount]]
AccountIds == {DEFAULT_ACCOUNT_ID, "dev", "staging", "unknown"}

\* A call of the plugin's config or outbound section and its inputs.
PluginCall(op, hasCfg, accountId, enabled, text) ==
    [op |-> op, sock |-> NoSocket, frame |-> NoFrame, content |-> text,
     metadata |-> Undefined, statusData |-> Undefined,
     hasCfg |-> hasCfg, accountId |-> accountId, enabled |-> enabled]

\* ----------------------------------------------------- channel.ts chunker
\* Texts are sequences of characters.
Texts == UNION {[1..n -> {"a", "b"}] : n \in 0..MaxLen}
Limits == (0 - 1)..(MaxLen + 1)

\* String.prototype.slice(start, end): a negative index counts from the end.
Slice(text, start, end) ==
    LET len == Len(text)
        from == IF start < 0
                THEN (IF len + start > 0 THEN len + start ELSE 0)
                ELSE (IF start < len THEN start ELSE len)
        to == IF end < 0
              THEN (IF len + end > 0 THEN len + end ELSE 0)
              ELSE (IF end < len THEN end ELSE len)
    IN IF from >= to THEN <<>> ELSE SubSeq(text, from + 1, to)

\* The chunker's frame: its arguments, its loop counter and its chunks.
ChunkerFrame(pc, text, limit, i, chunks) ==
    [pc |-> pc, text |-> text, limit |-> limit, i |-> i, chunks |-> chunks]
NoLoop == ChunkerFrame("idle", <<>>, 1, 0, <<>>)

\* ------------------------------------------------------------- variables
VARIABLES
    ws,               \* this.ws: NoSocket or the id of the current socket
    onCardEvent,      \* this.onCardEvent is set
    reconnectTimer,   \* this.reconnectTimer: NoTimer or a timer handle
    chatSubscribed,   \* this.chatSubscribed
    cardsSubscribed,  \* this.cardsSubscribed
    readyState,       \* per socket id: "NONE", "OPEN", "CLOSING", "CLOSED"
    timers,           \* pending timeouts in firing order: [id, delay]
    emitted,          \* ws.send calls of the latest step: [sock, frame]
    invoked,          \* callback invocations of the latest step: [cb, msg]
    lastCall,         \* the latest step: operation and its inputs
    chatConfirmed,    \* a chat Confirmation has been processed at some time
    disconnected,     \* disconnect() ran and connect() was not called since
    callArgs,         \* inputs of the latest step that lastCall has no field for
    \* outbound.ts
    httpRequests,     \* fetch calls of the latest step
    inflight,         \* fetch calls not yet answered, per awaiting function
    settled,          \* promises settled in the latest step: [fn, state, value]
    consoleErrors,    \* console.error calls of the latest step
    \* StatusReporter
    active,           \* this.active
    timer,            \* this.timer: NoTimer or an interval handle
    sendCallback,     \* this.sendCallback: NoCallback or a callback
    intervals,        \* armed setInterval handles
    pushed,           \* sendCallback invocations of the latest step: [cb, data]
    reporterLog,      \* warn/error calls on the reporter's log in the latest step
    callCount,        \* times each test callback has been called
    \* startAccount
    started,          \* startAccount ran up to its returned promise
    aborted,          \* the abort listener ran
    resolved,         \* the promise startAccount returned is resolved
    fallback,         \* the HTTP fallback loop is running
    dispatching,      \* dispatchToDashbot handed a message to the runtime
    dispatched,       \* dispatchToDashbot calls of the latest step
    \* calls and their results
    thisConfig,       \* this.config of the connection: [url, token]
    wsUrl,            \* the URL the latest socket was constructed with
    returned,         \* what the latest step returned or threw: [value, thrown]
    \* the gateway host
    signalAborted,    \* ctx.abortSignal.aborted
    heldCfg,          \* the config object the gateway holds
    chunking          \* the frame of the chunker call: [pc, text, limit, i, chunks]

connVars == <<ws, onCardEvent, reconnectTimer, chatSubscribed, cardsSubscribed,
              readyState, timers, emitted, invoked, lastCall, chatConfirmed,
              disconnected>>
outboundVars == <<httpRequests, inflight, settled, consoleErrors>>
reporterVars == <<active, timer, sendCallback, intervals, pushed, reporterLog,
                  callCount>>
accountVars == <<started, aborted, resolved, fallback, dispatching, dispatched>>

callVars == <<thisConfig, wsUrl, returned>>
hostVars == <<signalAborted, heldCfg, chunking>>

vars == <<connVars, callArgs, outboundVars, reporterVars, accountVars, callVars,
          hostVars>>

Call(op, sock, frame, content, metadata, statusData) ==
    [op |-> op, sock |-> sock, frame |-> frame, content |-> content,
     metadata |-> metadata, statusData |-> statusData]

Created == {s \in SocketIds : readyState[s] # "NONE"}
PendingIds == {timers[i].id : i \in 1..Len(timers)}

\* The state after new DashbotConnection(cfg, onMessage), with a new
\* StatusReporter and no account started.
Constructed(cfg) ==
    /\ ws = NoSocket
    /\ onCardEvent = FALSE
    /\ reconnectTimer = NoTimer
    /\ chatSubscribed = FALSE
    /\ cardsSubscribed = FALSE
    /\ readyState = [s \in SocketIds |-> "NONE"]
    /\ timers = <<>>
    /\ emitted = <<>>
    /\ invoked = <<>>
    /\ lastCall = Call("new", NoSocket, NoFrame, Undefined, Undefined, Undefined)
    /\ chatConfirmed = FALSE
    /\ disconnected = FALSE
    /\ callArgs = NoArgs
    /\ httpRequests = <<>>
    /\ inflight = [fn \in {"postResponse", "postCard"} |-> 0]
    /\ settled = <<>>
    /\ consoleErrors = <<>>
    /\ active = FALSE
    /\ timer = NoTimer
    /\ sendCallback = NoCallback
    /\ intervals = {}
    /\ pushed = <<>>
    /\ reporterLog = <<>>
    /\ callCount = [cb \in TestCallbacks |-> 0]
    /\ started = FALSE
    /\ aborted = FALSE
    /\ resolved = FALSE
    /\ fallback = FALSE
    /\ dispatching = FALSE
    /\ dispatched = <<>>
    /\ thisConfig = cfg
    /\ wsUrl = <<>>
    /\ returned = NoReturn
    /\ signalAborted = FALSE
    /\ chunking = NoLoop

Init == Constructed(TestConfig) /\ heldCfg = TestCfg

\* The connection is constructed with any of the configs.
InitAnyConfig ==
    \E cfg \in ConnectionConfigs : Constructed(cfg) /\ heldCfg = TestCfg

\* ------------------------------------------------------------ operations
setCardHandler ==
    /\ onCardEvent' = TRUE
    /\ emitted' = <<>>
    /\ invoked' = <<>>
    /\ UNCHANGED <<ws, reconnectTimer, chatSubscribed, cardsSubscribed,
                   readyState, timers>>

\* isConnected() asking for both subscriptions.
isConnected_NeedsCards == chatSubscribed /\ cardsSubscribed /\ ws # NoSocket

isConnected == chatSubscribed /\ ws # NoSocket

\* config.url.replace(/\/$/, "")
StripTrailingSlash(url) ==
    IF Len(url) > 0 /\ url[Len(url)] = "/"
    THEN SubSeq(url, 1, Len(url) - 1) ELSE url

\* encodeURIComponent(token)
EncodeChar(c) ==
    CASE c = "&" -> "%26"
      [] c = "=" -> "%3D"
      [] c = " " -> "%20"
      [] c = "/" -> "%2F"
      [] OTHER -> c
encodeURIComponent(s) == [i \in 1..Len(s) |-> EncodeChar(s[i])]

\* buildWsUrl() putting the token into the query as it is.
buildWsUrl_RawToken(cfg) ==
    LET base == StripTrailingSlash(cfg.url)
        protocol == IF Len(base) > 0 /\ base[1] = "https" THEN "wss" ELSE "ws"
        host == IF /\ Len(base) >= 4
                   /\ base[1] \in {"http", "https"}
                   /\ SubSeq(base, 2, 4) = <<":", "/", "/">>
                THEN SubSeq(base, 5, Len(base)) ELSE base
    IN <<protocol, ":", "/", "/">> \o host \o <<"/cable", "?", "token", "=">>
         \o cfg.token

\* buildWsUrl()
buildWsUrl(cfg) ==
    LET base == StripTrailingSlash(cfg.url)
        protocol == IF Len(base) > 0 /\ base[1] = "https" THEN "wss" ELSE "ws"
        host == IF /\ Len(base) >= 4
                   /\ base[1] \in {"http", "https"}
                   /\ SubSeq(base, 2, 4) = <<":", "/", "/">>
                THEN SubSeq(base, 5, Len(base)) ELSE base
    IN <<protocol, ":", "/", "/">> \o host \o <<"/cable", "?", "token", "=">>
         \o encodeURIComponent(cfg.token)

\* new WebSocket(url) throws a SyntaxError when the URL does not parse.
SocketAccepts(url) == \A i \in 1..Len(url) : url[i] # InvalidHost

\* connect(): new WebSocket(url) and its four handlers.
connect ==
    LET n == Cardinality(Created) + 1
        url == buildWsUrl(thisConfig)
    IN /\ IF SocketAccepts(url)
          THEN /\ n <= MaxSockets
               /\ ws' = n
               /\ readyState' = [readyState EXCEPT ![n] = "OPEN"]
               /\ wsUrl' = url
               /\ returned' = NoReturn
          ELSE /\ returned' = Throws("SyntaxError")
               /\ UNCHANGED <<ws, readyState, wsUrl>>
       /\ emitted' = <<>>
       /\ invoked' = <<>>
       /\ UNCHANGED <<onCardEvent, reconnectTimer, chatSubscribed,
                      cardsSubscribed, thisConfig>>

\* WebSocket.close(): starts the closing handshake of an open socket.
CloseSocket(rs, s) ==
    IF rs[s] = "OPEN" THEN [rs EXCEPT ![s] = "CLOSING"] ELSE rs

\* clearTimeout(h): removes the pending timeout with that handle, if any.
ClearTimeout(q, h) == SelectSeq(q, LAMBDA t : t.id # h)

disconnect ==
    /\ timers' = IF reconnectTimer # NoTimer
                 THEN ClearTimeout(timers, reconnectTimer) ELSE timers
    /\ reconnectTimer' = NoTimer
    /\ readyState' = IF ws # NoSocket THEN CloseSocket(readyState, ws)
                     ELSE readyState
    /\ ws' = NoSocket
    /\ chatSubscribed' = FALSE
    /\ cardsSubscribed' = FALSE
    /\ emitted' = <<>>
    /\ invoked' = <<>>
    /\ UNCHANGED onCardEvent

\* sendResponse with the subscription test left out of its guard.
sendResponse_Ungated(content, metadata) ==
    /\ emitted' =
         IF ws = NoSocket THEN <<>>
         ELSE LET obj == [k \in {"action", "content", "metadata"} |->
                            CASE k = "action" -> "respond"
                              [] k = "content" -> content
                              [] k = "metadata" -> metadata]
                  data == JSONStringify(<<"action", "content", "metadata">>, obj)
              IN <<[sock |-> ws,
                    frame |-> CableCommand("message", CHAT_IDENTIFIER, <<data>>)]>>
    /\ invoked' = <<>>
    /\ UNCHANGED <<ws, onCardEvent, reconnectTimer, chatSubscribed,
                   cardsSubscribed>>

\* sendResponse(content, metadata)
sendResponse(content, metadata) ==
    /\ emitted' =
         IF ws = NoSocket \/ ~chatSubscribed THEN <<>>
         ELSE LET obj == [k \in {"action", "content", "metadata"} |->
                            CASE k = "action" -> "respond"
                              [] k = "content" -> content
                              [] k = "metadata" -> metadata]
                  data == JSONStringify(<<"action", "content", "metadata">>, obj)
              IN <<[sock |-> ws,
                    frame |-> CableCommand("message", CHAT_IDENTIFIER, <<data>>)]>>
    /\ invoked' = <<>>
    /\ UNCHANGED <<ws, onCardEvent, reconnectTimer, chatSubscribed,
                   cardsSubscribed>>

\* sendStatus(statusData)
sendStatus(statusData) ==
    /\ emitted' =
         IF ws = NoSocket \/ ~chatSubscribed THEN <<>>
         ELSE LET obj == [k \in {"action", "status_data"} |->
                            CASE k = "action" -> "send_status"
                              [] k = "status_data" -> statusData]
                  data == JSONStringify(<<"action", "status_data">>, obj)
              IN <<[sock |-> ws,
                    frame |-> CableCommand("message", CHAT_IDENTIFIER, <<data>>)]>>
    /\ invoked' = <<>>
    /\ UNCHANGED <<ws, onCardEvent, reconnectTimer, chatSubscribed,
                   cardsSubscribed>>

\* subscribeChatChannel(): the frames it writes.
subscribeChatChannel ==
    IF ws = NoSocket THEN <<>>
    ELSE <<[sock |-> ws,
            frame |-> CableCommand("subscribe", CHAT_IDENTIFIER, <<>>)]>>

\* subscribeCardsChannel(): the frames it writes.
subscribeCardsChannel ==
    IF ws = NoSocket THEN <<>>
    ELSE <<[sock |-> ws,
            frame |-> CableCommand("subscribe", CARDS_IDENTIFIER, <<>>)]>>

\* welcome with the two subscribe calls in the other order.
welcome_CardsFirst ==
    /\ emitted' = subscribeCardsChannel \o subscribeChatChannel
    /\ invoked' = <<>>
    /\ UNCHANGED <<ws, onCardEvent, reconnectTimer, chatSubscribed,
                   cardsSubscribed>>

\* handleIncoming, case "welcome"
welcome ==
    /\ emitted' = subscribeChatChannel \o subscribeCardsChannel
    /\ invoked' = <<>>
    /\ UNCHANGED <<ws, onCardEvent, reconnectTimer, chatSubscribed,
                   cardsSubscribed>>

\* handleIncoming, case "confirm_subscription"
confirm_subscription(data) ==
    LET id == IF "identifier" \in data.keys THEN data.identifier ELSE Undefined IN
    /\ chatSubscribed' = IF id = CHAT_IDENTIFIER THEN TRUE ELSE chatSubscribed
    /\ cardsSubscribed' =
         IF id # CHAT_IDENTIFIER /\ id = CARDS_IDENTIFIER THEN TRUE
         ELSE cardsSubscribed
    /\ emitted' = <<>>
    /\ invoked' = <<>>
    /\ UNCHANGED <<ws, onCardEvent, reconnectTimer>>

\* ping with its break missing after a reordering: it runs the welcome case.
ping_AsWelcome == welcome

\* handleIncoming, case "ping"
ping ==
    /\ emitted' = <<>>
    /\ invoked' = <<>>
    /\ UNCHANGED <<ws, onCardEvent, reconnectTimer, chatSubscribed,
                   cardsSubscribed>>

\* handleIncoming, a "type" the switch has no case for, or an object with
\* neither "type" nor both "message" and "identifier"
ignored ==
    /\ emitted' = <<>>
    /\ invoked' = <<>>
    /\ UNCHANGED <<ws, onCardEvent, reconnectTimer, chatSubscribed,
                   cardsSubscribed>>

\* broadcast falling back to the chat callback when no card handler is set.
broadcast_CardsFallBack(incoming) ==
    /\ invoked' =
         IF incoming.identifier = CARDS_IDENTIFIER /\ onCardEvent
         THEN <<[cb |-> "onCardEvent", msg |-> incoming.message]>>
         ELSE <<[cb |-> "onMessage", msg |-> incoming.message]>>
    /\ emitted' = <<>>
    /\ UNCHANGED <<ws, onCardEvent, reconnectTimer, chatSubscribed,
                   cardsSubscribed>>

\* handleIncoming, the branch for objects with "message" and "identifier"
broadcast(incoming) ==
    /\ invoked' =
         IF incoming.identifier = CARDS_IDENTIFIER
         THEN IF onCardEvent
              THEN <<[cb |-> "onCardEvent", msg |-> incoming.message]>>
              ELSE <<>>
         ELSE <<[cb |-> "onMessage", msg |-> incoming.message]>>
    /\ emitted' = <<>>
    /\ UNCHANGED <<ws, onCardEvent, reconnectTimer, chatSubscribed,
                   cardsSubscribed>>

handleIncoming(data) ==
    IF "type" \in data.keys
    THEN CASE data.type = "welcome" -> welcome
           [] data.type = "confirm_subscription" -> confirm_subscription(data)
           [] data.type = "ping" -> ping
           [] OTHER -> ignored
    ELSE IF "message" \in data.keys /\ "identifier" \in data.keys
         THEN broadcast(data)
         ELSE ignored

\* scheduleReconnect() arming nothing.
scheduleReconnect_NoTimer == UNCHANGED <<timers, reconnectTimer>>

\* scheduleReconnect(): setTimeout(() => this.connect(), 3000)
scheduleReconnect ==
    LET h == CHOOSE i \in SocketIds :
                 /\ i \notin PendingIds
                 /\ \A j \in SocketIds : j \notin PendingIds => i <= j
    IN /\ timers' = Append(timers, [id |-> h, delay |-> RECONNECT_DELAY])
       /\ reconnectTimer' = h

\* onclose that resets the chat flag only.
onclose_KeepsCards ==
    /\ chatSubscribed' = FALSE
    /\ scheduleReconnect
    /\ emitted' = <<>>
    /\ invoked' = <<>>
    /\ UNCHANGED <<ws, onCardEvent, cardsSubscribed>>

\* ws.onclose
onclose ==
    /\ chatSubscribed' = FALSE
    /\ cardsSubscribed' = FALSE
    /\ scheduleReconnect
    /\ emitted' = <<>>
    /\ invoked' = <<>>
    /\ UNCHANGED <<ws, onCardEvent>>

\* ------------------------------------------------------------------ steps
\* A step that returns nothing, throws nothing and constructs no socket.
Quiet ==
    /\ returned' = NoReturn
    /\ UNCHANGED <<thisConfig, wsUrl>>

NoInput(op, sock) == Call(op, sock, NoFrame, Undefined, Undefined, Undefined)

Connect ==
    /\ connect
    /\ lastCall' = NoInput("connect", NoSocket)
    /\ disconnected' = FALSE
    /\ UNCHANGED <<timers, chatConfirmed>>

Disconnect ==
    /\ disconnect
    /\ Quiet
    /\ lastCall' = NoInput("disconnect", NoSocket)
    /\ disconnected' = TRUE
    /\ UNCHANGED chatConfirmed

SetCardHandler ==
    /\ setCardHandler
    /\ Quiet
    /\ lastCall' = NoInput("setCardHandler", NoSocket)
    /\ UNCHANGED <<chatConfirmed, disconnected>>

SendResponse ==
    \E content \in Contents, metadata \in Metadatas :
        /\ sendResponse(content, metadata)
        /\ Quiet
        /\ lastCall' = Call("sendResponse", NoSocket, NoFrame, content,
                            metadata, Undefined)
        /\ UNCHANGED <<readyState, timers, chatConfirmed, disconnected>>

SendStatus ==
    \E statusData \in StatusDatas :
        /\ sendStatus(statusData)
        /\ Quiet
        /\ lastCall' = Call("sendStatus", NoSocket, NoFrame, Undefined,
                            Undefined, statusData)
        /\ UNCHANGED <<readyState, timers, chatConfirmed, disconnected>>

\* A message event of socket s: ws.onmessage parses the frame and hands it to
\* handleIncoming.
OnMessage ==
    \E s \in SocketIds, data \in InboundFrames :
        /\ readyState[s] = "OPEN"
        /\ handleIncoming(data)
        /\ Quiet
        /\ lastCall' = Call("onmessage", s, data, Undefined, Undefined, Undefined)
        /\ chatConfirmed' = (chatConfirmed \/ data = ConfirmFrame(CHAT_IDENTIFIER))
        /\ UNCHANGED <<readyState, timers, disconnected>>

\* The close event of socket s.
OnClose ==
    \E s \in SocketIds :
        /\ readyState[s] \in {"OPEN", "CLOSING"}
        /\ readyState' = [readyState EXCEPT ![s] = "CLOSED"]
        /\ onclose
        /\ Quiet
        /\ lastCall' = NoInput("onclose", s)
        /\ UNCHANGED <<chatConfirmed, disconnected>>

\* The oldest pending timeout fires: its callback calls connect().
TimerFires ==
    /\ timers # <<>>
    /\ timers' = Tail(timers)
    /\ connect
    /\ lastCall' = NoInput("timer", NoSocket)
    /\ UNCHANGED <<chatConfirmed, disconnected>>

\* A step in which outbound.ts, the StatusReporter or startAccount do not
\* take part: they write nothing and keep their state.
OutboundIdle ==
    /\ httpRequests' = <<>>
    /\ settled' = <<>>
    /\ consoleErrors' = <<>>
    /\ UNCHANGED inflight

ReporterIdle ==
    /\ pushed' = <<>>
    /\ reporterLog' = <<>>
    /\ UNCHANGED <<active, timer, sendCallback, intervals, callCount>>

\* A step that leaves the abort signal, the held config and the chunker alone.
HostIdle == UNCHANGED <<signalAborted, heldCfg, chunking>>

AccountIdle ==
    /\ dispatched' = <<>>
    /\ UNCHANGED <<started, aborted, resolved, fallback, dispatching>>
    /\ HostIdle

ConnectionOnly ==
    /\ callArgs' = NoArgs
    /\ OutboundIdle
    /\ ReporterIdle
    /\ AccountIdle

ConnectStep == Connect /\ ConnectionOnly
DisconnectStep == Disconnect /\ ConnectionOnly
SetCardHandlerStep == SetCardHandler /\ ConnectionOnly
SendResponseStep == SendResponse /\ ConnectionOnly
SendStatusStep == SendStatus /\ ConnectionOnly
MessageEvent == OnMessage /\ ConnectionOnly
CloseEvent == OnClose /\ ConnectionOnly
TimeoutEvent == TimerFires /\ ConnectionOnly

Next ==
    \/ ConnectStep
    \/ DisconnectStep
    \/ SetCardHandlerStep
    \/ SendResponseStep
    \/ SendStatusStep
    \/ MessageEvent
    \/ CloseEvent
    \/ TimeoutEvent

Spec == Init /\ [][Next]_vars

\* The same connection driven by a caller that calls connect() only while
\* the connection holds no socket (after construction or after disconnect()),
\* as startAccount does.
ConnectWhenIdle == ws = NoSocket /\ ConnectStep

NextIdleConnect ==
    \/ ConnectWhenIdle
    \/ DisconnectStep
    \/ SetCardHandlerStep
    \/ SendResponseStep
    \/ SendStatusStep
    \/ MessageEvent
    \/ CloseEvent
    \/ TimeoutEvent

SpecIdleConnect == Init /\ [][NextIdleConnect]_vars

\* A call of isConnected().
IsConnectedStep ==
    /\ returned' = Returns(isConnected)
    /\ lastCall' = NoInput("isConnected", NoSocket)
    /\ emitted' = <<>>
    /\ invoked' = <<>>
    /\ UNCHANGED <<ws, onCardEvent, reconnectTimer, chatSubscribed,
                   cardsSubscribed, readyState, timers, chatConfirmed,
                   disconnected, thisConfig, wsUrl>>
    /\ ConnectionOnly

\* ws.onmessage for event.data that is not the text of a frame object:
\* JSON.parse throws on text that is not JSON, the in operator throws on a
\* value that is not an object, and an array has none of the keys.
onmessage(raw) ==
    CASE raw.parsed = "SyntaxError" ->
           /\ returned' = Throws("SyntaxError")
           /\ emitted' = <<>>
           /\ invoked' = <<>>
           /\ UNCHANGED <<ws, onCardEvent, reconnectTimer, chatSubscribed,
                          cardsSubscribed>>
      [] raw.parsed \in {"null", "number", "string"} ->
           /\ returned' = Throws("TypeError")
           /\ emitted' = <<>>
           /\ invoked' = <<>>
           /\ UNCHANGED <<ws, onCardEvent, reconnectTimer, chatSubscribed,
                          cardsSubscribed>>
      [] OTHER ->
           /\ returned' = NoReturn
           /\ handleIncoming(EmptyFrame)

\* A message event of socket s whose data is not the text of a frame object;
\* lastCall keeps event.data as its content.
RawMessageEvent ==
    \E s \in SocketIds, raw \in RawPayloads :
        /\ readyState[s] = "OPEN"
        /\ onmessage(raw)
        /\ lastCall' = Call("onmessage", s, NoFrame, raw.text, Undefined,
                            Undefined)
        /\ UNCHANGED <<readyState, timers, chatConfirmed, disconnected,
                       thisConfig, wsUrl>>
        /\ ConnectionOnly

\* The connection built with any config, its calls and its socket events.
NextWire ==
    \/ ConnectWhenIdle
    \/ DisconnectStep
    \/ IsConnectedStep
    \/ MessageEvent
    \/ RawMessageEvent
    \/ CloseEvent
    \/ TimeoutEvent

SpecWire == InitAnyConfig /\ [][NextWire]_vars

\* The server writes frame data to the current socket.
ServerSends(data) ==
    /\ ws # NoSocket
    /\ MessageEvent
    /\ lastCall'.sock = ws
    /\ lastCall'.frame = data
ServerWelcome == ServerSends(WelcomeFrame)
ServerConfirm == ServerSends(ConfirmFrame(CHAT_IDENTIFIER))

\* A close event while a socket id is left for the reconnect.
CloseWithinBound == Cardinality(Created) < MaxSockets /\ CloseEvent

\* The connection without disconnect(): connect() once, then sends, frames,
\* closes and reconnects.  The timeout fires when due, and the server answers
\* a socket that stays open with Welcome and with a chat Confirmation.
NextLive ==
    \/ ConnectWhenIdle
    \/ SendResponseStep
    \/ SendStatusStep
    \/ MessageEvent
    \/ CloseWithinBound
    \/ TimeoutEvent

SpecLive ==
    /\ Init
    /\ [][NextLive]_vars
    /\ WF_vars(TimeoutEvent)
    /\ WF_vars(ServerWelcome)
    /\ WF_vars(ServerConfirm)

\* ------------------------------------------------------------ outbound.ts
\* The fetch(url, { method, headers, body }) call of postResponse and postCard.
HttpRequest(url, token, body) ==
    [method |-> "POST", url |-> url, contentType |-> "application/json",
     authorization |-> <<"Bearer ", token>>, body |-> body]

\* What a settled promise carries: { ok, card_id, error } for postCard.
Result(ok, card_id, error) == [ok |-> ok, card_id |-> card_id, error |-> error]
Void == Result(FALSE, Undefined, Undefined)
Settle(fn, state, value) == [fn |-> fn, state |-> state, value |-> value]

\* String(err) of the exceptions res.json() and res.text() throw.
JsonSyntaxError == "SyntaxError: Unexpected token"
BodyReadError == "TypeError: terminated"

\* postResponse building its URL from config.url as given.
postResponseRequest_KeepsSlash(config, content, metadata) ==
    LET obj == [k \in {"content", "metadata"} |->
                  IF k = "content" THEN content ELSE metadata]
    IN HttpRequest(config.url \o <<"/api/messages/respond">>,
                   config.token, JSONStringify(<<"content", "metadata">>, obj))

\* postResponse up to its await: the request it issues.
postResponseRequest(config, content, metadata) ==
    LET obj == [k \in {"content", "metadata"} |->
                  IF k = "content" THEN content ELSE metadata]
    IN HttpRequest(StripTrailingSlash(config.url) \o <<"/api/messages/respond">>,
                   config.token, JSONStringify(<<"content", "metadata">>, obj))

\* postResponse after its await, without the try/catch around the fetch.
postResponseSettles_NoCatch(outcome) ==
    /\ consoleErrors' =
         IF outcome.kind = "response" /\ ~outcome.ok
         THEN <<"[dashbot] HTTP respond failed: " \o outcome.status>>
         ELSE <<>>
    /\ settled' =
         IF outcome.kind = "exception"
         THEN <<Settle("postResponse", "rejected", Void)>>
         ELSE <<Settle("postResponse", "fulfilled", Void)>>
    /\ httpRequests' = <<>>
    /\ inflight' = [inflight EXCEPT !["postResponse"] = @ - 1]

\* postResponse after its await.
postResponseSettles(outcome) ==
    /\ consoleErrors' =
         IF outcome.kind = "exception" THEN <<"[dashbot] HTTP respond error:">>
         ELSE IF ~outcome.ok
              THEN <<"[dashbot] HTTP respond failed: " \o outcome.status>>
              ELSE <<>>
    /\ settled' = <<Settle("postResponse", "fulfilled", Void)>>
    /\ httpRequests' = <<>>
    /\ inflight' = [inflight EXCEPT !["postResponse"] = @ - 1]

\* sendText posting over HTTP whenever the connection is not connected.
sendText_FallsBackToHttp(conn, config, content, metadata) ==
    /\ IF conn /\ isConnected
       THEN /\ sendResponse(content, metadata)
            /\ httpRequests' = <<>>
            /\ UNCHANGED inflight
       ELSE /\ httpRequests' = <<postResponseRequest(config, content, metadata)>>
            /\ inflight' = [inflight EXCEPT !["postResponse"] = @ + 1]
            /\ emitted' = <<>>
            /\ invoked' = <<>>
            /\ UNCHANGED <<ws, onCardEvent, reconnectTimer, chatSubscribed,
                           cardsSubscribed>>
    /\ settled' = <<>>
    /\ consoleErrors' = <<>>

\* createOutbound(connection, config).sendText(content, metadata); conn says
\* whether a connection was supplied.
sendText(conn, config, content, metadata) ==
    /\ IF conn
       THEN /\ sendResponse(content, metadata)
            /\ httpRequests' = <<>>
            /\ UNCHANGED inflight
       ELSE /\ httpRequests' = <<postResponseRequest(config, content, metadata)>>
            /\ inflight' = [inflight EXCEPT !["postResponse"] = @ + 1]
            /\ emitted' = <<>>
            /\ invoked' = <<>>
            /\ UNCHANGED <<ws, onCardEvent, reconnectTimer, chatSubscribed,
                           cardsSubscribed>>
    /\ settled' = <<>>
    /\ consoleErrors' = <<>>

\* postCard up to its await: the request it issues.
postCardRequest(config, card) ==
    LET obj == [k \in {"type", "prompt", "message", "options", "metadata"} |->
                  CASE k = "type" ->
                         IF card.type = Undefined THEN "confirm" ELSE card.type
                    [] k = "prompt" -> card.prompt
                    [] k = "message" -> card.message
                    [] k = "options" -> card.options
                    [] k = "metadata" -> card.metadata]
    IN HttpRequest(StripTrailingSlash(config.url) \o <<"/api/cards">>, config.token,
                   JSONStringify(<<"type", "prompt", "message", "options",
                                   "metadata">>, obj))

\* postCard taking every 2xx response as a created card.
postCardResult_TrustsStatus(outcome) ==
    IF outcome.kind = "exception" THEN Result(FALSE, Undefined, outcome.text)
    ELSE IF ~outcome.ok
         THEN IF outcome.readable
              THEN Result(FALSE, Undefined, outcome.text)
              ELSE Result(FALSE, Undefined, BodyReadError)
         ELSE Result(TRUE, outcome.cardId, Undefined)

\* The value postCard returns for an outcome of its fetch.
postCardResult(outcome) ==
    IF outcome.kind = "exception" THEN Result(FALSE, Undefined, outcome.text)
    ELSE IF ~outcome.ok
         THEN IF outcome.readable
              THEN Result(FALSE, Undefined, outcome.text)
              ELSE Result(FALSE, Undefined, BodyReadError)
         ELSE IF ~outcome.readable THEN Result(FALSE, Undefined, BodyReadError)
              ELSE IF ~outcome.json THEN Result(FALSE, Undefined, JsonSyntaxError)
              ELSE Result(TRUE, outcome.cardId, Undefined)

\* postCard after its await.
postCardSettles(outcome) ==
    /\ consoleErrors' =
         IF outcome.kind = "response" /\ ~outcome.ok /\ outcome.readable
         THEN <<"[dashbot] Card creation failed: " \o outcome.status>>
         ELSE IF postCardResult(outcome).ok THEN <<>>
              ELSE <<"[dashbot] Card creation error:">>
    /\ settled' = <<Settle("postCard", "fulfilled", postCardResult(outcome))>>
    /\ httpRequests' = <<>>
    /\ inflight' = [inflight EXCEPT !["postCard"] = @ - 1]

\* createOutbound(connection, config).sendCard(card)
sendCard(conn, config, card) ==
    /\ httpRequests' = <<postCardRequest(config, card)>>
    /\ inflight' = [inflight EXCEPT !["postCard"] = @ + 1]
    /\ settled' = <<>>
    /\ consoleErrors' = <<>>
    /\ emitted' = <<>>
    /\ invoked' = <<>>
    /\ UNCHANGED <<ws, onCardEvent, reconnectTimer, chatSubscribed,
                   cardsSubscribed>>

OutboundSendText ==
    \E conn \in BOOLEAN, config \in Configs, content \in Contents,
       metadata \in Metadatas :
        /\ conn \/ inflight["postResponse"] < MaxInflight
        /\ sendText(conn, config, content, metadata)
        /\ Quiet
        /\ lastCall' = Call("sendText", NoSocket, NoFrame, content, metadata,
                            Undefined)
        /\ callArgs' = Args(conn, config, NoCard, NoOutcome, NoCallback,
                            Undefined, FALSE)
        /\ UNCHANGED <<readyState, timers, chatConfirmed, disconnected>>
        /\ ReporterIdle
        /\ AccountIdle

OutboundSendCard ==
    \E conn \in BOOLEAN, config \in Configs, card \in CardPayloads :
        /\ inflight["postCard"] < MaxInflight
        /\ sendCard(conn, config, card)
        /\ Quiet
        /\ lastCall' = NoInput("sendCard", NoSocket)
        /\ callArgs' = Args(conn, config, card, NoOutcome, NoCallback,
                            Undefined, FALSE)
        /\ UNCHANGED <<readyState, timers, chatConfirmed, disconnected>>
        /\ ReporterIdle
        /\ AccountIdle

\* The fetch of a pending postResponse ends and postResponse runs on.
RespondFetchEnds ==
    \E outcome \in HttpOutcomes :
        /\ inflight["postResponse"] > 0
        /\ postResponseSettles(outcome)
        /\ Quiet
        /\ lastCall' = NoInput("postResponse", NoSocket)
        /\ callArgs' = Args(FALSE, NoConfig, NoCard, outcome, NoCallback,
                            Undefined, FALSE)
        /\ emitted' = <<>>
        /\ invoked' = <<>>
        /\ UNCHANGED <<ws, onCardEvent, reconnectTimer, chatSubscribed,
                       cardsSubscribed, readyState, timers, chatConfirmed,
                       disconnected>>
        /\ ReporterIdle
        /\ AccountIdle

\* The fetch of a pending postCard ends and postCard runs on.
CardFetchEnds ==
    \E outcome \in HttpOutcomes :
        /\ inflight["postCard"] > 0
        /\ postCardSettles(outcome)
        /\ Quiet
        /\ lastCall' = NoInput("postCard", NoSocket)
        /\ callArgs' = Args(FALSE, NoConfig, NoCard, outcome, NoCallback,
                            Undefined, FALSE)
        /\ emitted' = <<>>
        /\ invoked' = <<>>
        /\ UNCHANGED <<ws, onCardEvent, reconnectTimer, chatSubscribed,
                       cardsSubscribed, readyState, timers, chatConfirmed,
                       disconnected>>
        /\ ReporterIdle
        /\ AccountIdle

\* An outbound sender over the connection and its socket events.
NextOutbound ==
    \/ OutboundSendText
    \/ OutboundSendCard
    \/ RespondFetchEnds
    \/ CardFetchEnds
    \/ ConnectStep
    \/ DisconnectStep
    \/ MessageEvent
    \/ CloseEvent
    \/ TimeoutEvent

SpecOutbound == Init /\ [][NextOutbound]_vars

\* ----------------------------------------------------- status-reporter.ts
LogEntry(level, text) == [level |-> level, text |-> text]
AlreadyActive == LogEntry("warn", "[status-reporter] Already active")
Starting ==
    LogEntry("info", "[status-reporter] Starting on-demand status reporting")
Stopped == LogEntry("info", "[status-reporter] Stopped")
ReportFailed ==
    LogEntry("error", "[status-reporter] Failed to gather/send status")

\* setInterval returns a handle no pending interval has.
NewInterval ==
    CHOOSE n \in 1..(Cardinality(intervals) + 1) :
        \A t \in intervals : t.id # n

\* clearInterval(h)
ClearInterval(set, h) == {t \in set : t.id # h}

\* report() with callback cb in this.sendCallback: the callback invocations it
\* makes.  gather is what gatherStatusData() yields.
ReportPushes(cb, gather) ==
    IF cb = NoCallback \/ gather = GatherThrows THEN <<>>
    ELSE <<[cb |-> cb, data |-> gather]>>

\* report(): what it logs.  cbThrows says whether the callback throws.
ReportLogs(cb, gather, cbThrows) ==
    IF cb = NoCallback THEN <<>>
    ELSE IF gather = GatherThrows \/ cbThrows THEN <<ReportFailed>> ELSE <<>>

\* The calls the test callbacks have received (vi.fn() call counts).
Count(calls) ==
    [cb \in TestCallbacks |->
       callCount[cb] + Cardinality({i \in 1..Len(calls) : calls[i].cb = cb})]

\* start(sendCallback) waiting for the first interval before it reports.
start_NoImmediate(cb, gather, cbThrows) ==
    IF active
    THEN /\ reporterLog' = <<AlreadyActive>>
         /\ pushed' = <<>>
         /\ UNCHANGED <<active, timer, sendCallback, intervals, callCount>>
    ELSE /\ sendCallback' = cb
         /\ active' = TRUE
         /\ pushed' = <<>>
         /\ reporterLog' = <<Starting>>
         /\ timer' = NewInterval
         /\ intervals' = intervals \cup {[id |-> NewInterval, ms |-> INTERVAL_MS]}
         /\ UNCHANGED callCount

\* start(sendCallback) creating a timer on every call.
start_Restarts(cb, gather, cbThrows) ==
    /\ sendCallback' = cb
    /\ active' = TRUE
    /\ pushed' = ReportPushes(cb, gather)
    /\ reporterLog' = <<Starting>> \o ReportLogs(cb, gather, cbThrows)
    /\ timer' = NewInterval
    /\ intervals' = intervals \cup {[id |-> NewInterval, ms |-> INTERVAL_MS]}
    /\ callCount' = Count(pushed')

\* start(sendCallback)
start(cb, gather, cbThrows) ==
    IF active
    THEN /\ reporterLog' = <<AlreadyActive>>
         /\ pushed' = <<>>
         /\ UNCHANGED <<active, timer, sendCallback, intervals, callCount>>
    ELSE /\ sendCallback' = cb
         /\ active' = TRUE
         /\ pushed' = ReportPushes(cb, gather)
         /\ reporterLog' = <<Starting>> \o ReportLogs(cb, gather, cbThrows)
         /\ timer' = NewInterval
         /\ intervals' = intervals \cup {[id |-> NewInterval, ms |-> INTERVAL_MS]}
         /\ callCount' = Count(pushed')

\* stop() leaving its interval running.
stop_KeepsTimer ==
    /\ timer' = NoTimer
    /\ sendCallback' = sendCallback
    /\ active' = FALSE
    /\ pushed' = <<>>
    /\ reporterLog' = <<Stopped>>
    /\ UNCHANGED <<intervals, callCount>>

\* stop() keeping the push callback it was started with.
stop_KeepsCallback ==
    /\ intervals' = IF timer # NoTimer THEN ClearInterval(intervals, timer)
                    ELSE intervals
    /\ timer' = NoTimer
    /\ sendCallback' = sendCallback
    /\ active' = FALSE
    /\ pushed' = <<>>
    /\ reporterLog' = <<Stopped>>
    /\ UNCHANGED callCount

\* stop()
stop ==
    /\ intervals' = IF timer # NoTimer THEN ClearInterval(intervals, timer)
                    ELSE intervals
    /\ timer' = NoTimer
    /\ sendCallback' = NoCallback
    /\ active' = FALSE
    /\ pushed' = <<>>
    /\ reporterLog' = <<Stopped>>
    /\ UNCHANGED callCount

\* report() letting a failure end the loop.
report_DiesOnError(gather, cbThrows) ==
    LET failed == sendCallback # NoCallback /\ (gather = GatherThrows \/ cbThrows)
    IN /\ pushed' = ReportPushes(sendCallback, gather)
       /\ reporterLog' = ReportLogs(sendCallback, gather, cbThrows)
       /\ callCount' = Count(pushed')
       /\ active' = (active /\ ~failed)
       /\ timer' = IF failed THEN NoTimer ELSE timer
       /\ intervals' = IF failed THEN ClearInterval(intervals, timer)
                       ELSE intervals
       /\ UNCHANGED sendCallback

\* The setInterval callback: () => void this.report()
report(gather, cbThrows) ==
    /\ pushed' = ReportPushes(sendCallback, gather)
    /\ reporterLog' = ReportLogs(sendCallback, gather, cbThrows)
    /\ callCount' = Count(pushed')
    /\ UNCHANGED <<active, timer, sendCallback, intervals>>

\* A step that runs StatusReporter code only.
ReporterOnly ==
    /\ emitted' = <<>>
    /\ invoked' = <<>>
    /\ UNCHANGED <<ws, onCardEvent, reconnectTimer, chatSubscribed,
                   cardsSubscribed, readyState, timers, chatConfirmed,
                   disconnected>>
    /\ OutboundIdle
    /\ AccountIdle

ReporterStart ==
    \E cb \in TestCallbacks, gather \in GatherOutcomes, cbThrows \in BOOLEAN :
        /\ callCount[cb] < MaxCalls
        /\ start(cb, gather, cbThrows)
        /\ Quiet
        /\ lastCall' = NoInput("start", NoSocket)
        /\ callArgs' = Args(FALSE, NoConfig, NoCard, NoOutcome, cb, gather,
                            cbThrows)
        /\ ReporterOnly

ReporterStop ==
    /\ stop
    /\ Quiet
    /\ lastCall' = NoInput("stop", NoSocket)
    /\ callArgs' = NoArgs
    /\ ReporterOnly

\* A pending interval comes due.
ReporterTick ==
    \E t \in intervals, gather \in GatherOutcomes, cbThrows \in BOOLEAN :
        /\ sendCallback \in TestCallbacks => callCount[sendCallback] < MaxCalls
        /\ report(gather, cbThrows)
        /\ Quiet
        /\ lastCall' = NoInput("tick", NoSocket)
        /\ callArgs' = Args(FALSE, NoConfig, NoCard, NoOutcome, NoCallback,
                            gather, cbThrows)
        /\ ReporterOnly

NextReporter ==
    \/ ReporterStart
    \/ ReporterStop
    \/ ReporterTick

SpecReporter == Init /\ [][NextReporter]_vars

\* ------------------------------------------------- channel.ts startAccount
\* The callback startAccount hands to statusReporter.start.
ChannelCallback == "channel"
StatusStopped == [type |-> "status_stopped", role |-> Undefined]
AssistantMessage == [type |-> "message", role |-> "assistant"]
AccountFrames ==
    InboundFrames
    \cup {BroadcastFrame(CHAT_IDENTIFIER, m) : m \in {StatusStopped,
                                                      AssistantMessage}}
AccountConfig == [url |-> BaseUrl, token |-> "test-token"]
EmptyText == ""

\* (statusData) => connection.sendStatus(statusData) writing to the socket
\* whatever the subscription state.
ChannelPush_Ungated(calls) ==
    IF calls = <<>> THEN <<>>
    ELSE LET obj == [k \in {"action", "status_data"} |->
                       IF k = "action" THEN "send_status" ELSE calls[1].data]
             data == JSONStringify(<<"action", "status_data">>, obj)
         IN <<[sock |-> ws,
               frame |-> CableCommand("message", CHAT_IDENTIFIER, <<data>>)]>>

\* (statusData) => { if (connection.isConnected()) connection.sendStatus(statusData) }
\* for the callback invocations of a report: the ws.send calls it makes.
ChannelPush(calls) ==
    IF calls = <<>> \/ ~isConnected THEN <<>>
    ELSE LET obj == [k \in {"action", "status_data"} |->
                       IF k = "action" THEN "send_status" ELSE calls[1].data]
             data == JSONStringify(<<"action", "status_data">>, obj)
         IN <<[sock |-> ws,
               frame |-> CableCommand("message", CHAT_IDENTIFIER, <<data>>)]>>

\* statusReporter.startHttpFallback(url, token)
startHttpFallback == fallback' = TRUE

\* statusReporter.stopHttpFallback()
stopHttpFallback == fallback' = FALSE

\* The onMessage callback of the connection startAccount builds.
onMessage(m, gather) ==
    CASE m.type = "message" /\ m.role = "user" ->
           /\ dispatched' = <<m>>
           /\ dispatching' = TRUE
           /\ emitted' = <<>>
           /\ ReporterIdle
      [] m.type = "status_requested" ->
           /\ dispatched' = <<>>
           /\ UNCHANGED dispatching
           /\ IF ~active
              THEN /\ start(ChannelCallback, gather, FALSE)
                   /\ emitted' = ChannelPush(pushed')
              ELSE /\ ReporterIdle
                   /\ emitted' = <<>>
      [] m.type = "status_stopped" ->
           /\ dispatched' = <<>>
           /\ UNCHANGED dispatching
           /\ stop
           /\ emitted' = <<>>
      [] OTHER ->
           /\ dispatched' = <<>>
           /\ UNCHANGED dispatching
           /\ emitted' = <<>>
           /\ ReporterIdle

\* The abort listener without its connection.disconnect().
abortListener_NoDisconnect ==
    /\ stop
    /\ stopHttpFallback
    /\ emitted' = <<>>
    /\ invoked' = <<>>
    /\ UNCHANGED <<ws, onCardEvent, reconnectTimer, chatSubscribed,
                   cardsSubscribed, readyState, timers>>
    /\ resolved' = TRUE

\* The abort listener startAccount registers.
abortListener ==
    /\ stop
    /\ stopHttpFallback
    /\ disconnect
    /\ resolved' = TRUE

\* startAccount leaving the HTTP fallback to the status signalling.
StartAccount_NoFallback ==
    /\ ~started
    /\ connect
    /\ UNCHANGED fallback
    /\ started' = TRUE
    /\ lastCall' = NoInput("startAccount", NoSocket)
    /\ callArgs' = Args(TRUE, AccountConfig, NoCard, NoOutcome, NoCallback,
                        Undefined, FALSE)
    /\ dispatched' = <<>>
    /\ disconnected' = FALSE
    /\ UNCHANGED <<timers, chatConfirmed, aborted, resolved, dispatching>>
    /\ HostIdle
    /\ OutboundIdle
    /\ ReporterIdle

\* gateway.startAccount(ctx)
StartAccount ==
    /\ ~started
    /\ connect
    /\ IF returned'.thrown = Undefined
       THEN /\ startHttpFallback
            /\ started' = TRUE
       ELSE UNCHANGED <<fallback, started>>
    /\ lastCall' = NoInput("startAccount", NoSocket)
    /\ callArgs' = Args(TRUE, AccountConfig, NoCard, NoOutcome, NoCallback,
                        Undefined, FALSE)
    /\ dispatched' = <<>>
    /\ disconnected' = FALSE
    /\ UNCHANGED <<timers, chatConfirmed, aborted, resolved, dispatching>>
    /\ HostIdle
    /\ OutboundIdle
    /\ ReporterIdle

\* A message event of socket s of a started account: handleIncoming, and for
\* a broadcast it routes to onMessage, the callback above.
AccountMessageEvent ==
    \E s \in SocketIds, data \in AccountFrames, gather \in GatherOutcomes :
        /\ readyState[s] = "OPEN"
        /\ IF /\ "type" \notin data.keys
              /\ "message" \in data.keys
              /\ "identifier" \in data.keys
              /\ data.identifier # CARDS_IDENTIFIER
           THEN /\ invoked' = <<[cb |-> "onMessage", msg |-> data.message]>>
                /\ onMessage(data.message, gather)
                /\ UNCHANGED <<ws, onCardEvent, reconnectTimer, chatSubscribed,
                               cardsSubscribed>>
           ELSE /\ handleIncoming(data)
                /\ dispatched' = <<>>
                /\ UNCHANGED dispatching
                /\ ReporterIdle
        /\ Quiet
        /\ lastCall' = Call("onmessage", s, data, Undefined, Undefined, Undefined)
        /\ callArgs' = Args(TRUE, AccountConfig, NoCard, NoOutcome, NoCallback,
                            gather, FALSE)
        /\ chatConfirmed' = (chatConfirmed \/ data = ConfirmFrame(CHAT_IDENTIFIER))
        /\ UNCHANGED <<readyState, timers, disconnected, started, aborted,
                       resolved, fallback>>
        /\ HostIdle
        /\ OutboundIdle

\* The interval of the account's reporter comes due.
AccountTick ==
    \E t \in intervals, gather \in GatherOutcomes :
        /\ report(gather, FALSE)
        /\ emitted' = ChannelPush(pushed')
        /\ invoked' = <<>>
        /\ Quiet
        /\ lastCall' = NoInput("tick", NoSocket)
        /\ callArgs' = Args(TRUE, AccountConfig, NoCard, NoOutcome, NoCallback,
                            gather, FALSE)
        /\ UNCHANGED <<ws, onCardEvent, reconnectTimer, chatSubscribed,
                       cardsSubscribed, readyState, timers, chatConfirmed,
                       disconnected>>
        /\ OutboundIdle
        /\ AccountIdle

\* The agent runtime calls deliver(payload) of a running dispatch; last says
\* whether the dispatch ends with it.
Deliver ==
    \E text \in Contents \cup {EmptyText}, last \in BOOLEAN :
        /\ dispatching
        /\ IF text # EmptyText
           THEN sendText(TRUE, AccountConfig, text, Undefined)
           ELSE /\ emitted' = <<>>
                /\ invoked' = <<>>
                /\ UNCHANGED <<ws, onCardEvent, reconnectTimer, chatSubscribed,
                               cardsSubscribed>>
                /\ OutboundIdle
        /\ dispatching' = ~last
        /\ dispatched' = <<>>
        /\ Quiet
        /\ lastCall' = Call("deliver", NoSocket, NoFrame, text, Undefined,
                            Undefined)
        /\ callArgs' = Args(TRUE, AccountConfig, NoCard, NoOutcome, NoCallback,
                            Undefined, FALSE)
        /\ UNCHANGED <<readyState, timers, chatConfirmed, disconnected, started,
                       aborted, resolved, fallback>>
        /\ HostIdle
        /\ ReporterIdle

\* The abort event of ctx.abortSignal, dispatched to the listener startAccount
\* registered: a signal fires it once, when it turns aborted.
Abort ==
    /\ started
    /\ ~aborted
    /\ ~signalAborted
    /\ signalAborted' = TRUE
    /\ UNCHANGED <<heldCfg, chunking>>
    /\ abortListener
    /\ aborted' = TRUE
    /\ dispatched' = <<>>
    /\ Quiet
    /\ lastCall' = NoInput("abort", NoSocket)
    /\ callArgs' = NoArgs
    /\ disconnected' = TRUE
    /\ UNCHANGED <<chatConfirmed, started, dispatching>>
    /\ OutboundIdle

NextAccount ==
    \/ StartAccount
    \/ AccountMessageEvent
    \/ AccountTick
    \/ Deliver
    \/ Abort
    \/ CloseEvent
    \/ TimeoutEvent

SpecAccount == Init /\ [][NextAccount]_vars

\* The gateway aborts ctx.abortSignal before startAccount has registered its
\* listener: the signal turns aborted and its abort event finds no listener.
EarlyAbort ==
    /\ ~started
    /\ ~signalAborted
    /\ signalAborted' = TRUE
    /\ UNCHANGED <<heldCfg, chunking>>
    /\ Quiet
    /\ lastCall' = NoInput("abort", NoSocket)
    /\ callArgs' = NoArgs
    /\ emitted' = <<>>
    /\ invoked' = <<>>
    /\ dispatched' = <<>>
    /\ UNCHANGED <<ws, onCardEvent, reconnectTimer, chatSubscribed,
                   cardsSubscribed, readyState, timers, chatConfirmed,
                   disconnected, started, aborted, resolved, fallback,
                   dispatching>>
    /\ OutboundIdle
    /\ ReporterIdle

\* An account whose abort signal may fire before or after startAccount.
NextAbort ==
    \/ EarlyAbort
    \/ StartAccount
    \/ AccountMessageEvent
    \/ AccountTick
    \/ Deliver
    \/ Abort
    \/ CloseEvent
    \/ TimeoutEvent

SpecAbort == Init /\ [][NextAbort]_vars

\* ------------------------------------------ channel.ts config and outbound
\* A step that runs code of the plugin's config or outbound section only.
HostOnly ==
    /\ UNCHANGED <<ws, onCardEvent, reconnectTimer, chatSubscribed,
                   cardsSubscribed, readyState, timers, chatConfirmed,
                   disconnected, thisConfig, wsUrl, signalAborted>>
    /\ ReporterIdle
    /\ dispatched' = <<>>
    /\ UNCHANGED <<started, aborted, resolved, fallback, dispatching>>

\* The gateway calls config.setAccountEnabled with the config it holds.
SetAccountEnabled ==
    \E accountId \in AccountIds, enabled \in BOOLEAN :
        /\ returned' = Returns(setAccountEnabled(heldCfg, accountId, enabled))
        /\ lastCall' = PluginCall("setAccountEnabled", TRUE, accountId, enabled,
                                  Undefined)
        /\ callArgs' = NoArgs
        /\ emitted' = <<>>
        /\ invoked' = <<>>
        /\ UNCHANGED <<heldCfg, chunking>>
        /\ OutboundIdle
        /\ HostOnly

\* The gateway keeps the config setAccountEnabled returned.
WriteConfig ==
    /\ lastCall.op = "setAccountEnabled"
    /\ heldCfg' = returned.value
    /\ returned' = NoReturn
    /\ lastCall' = NoInput("writeConfig", NoSocket)
    /\ callArgs' = NoArgs
    /\ emitted' = <<>>
    /\ invoked' = <<>>
    /\ UNCHANGED chunking
    /\ OutboundIdle
    /\ HostOnly

\* The gateway resolves an account of the config it holds and asks
\* config.isConfigured and config.isEnabled about it.
ResolveAccount ==
    \E accountId \in AccountIds :
        /\ LET account == resolveAccount(heldCfg, accountId)
           IN returned' = Returns([account |-> account,
                                   isConfigured |-> isConfigured(account),
                                   isEnabled |-> isEnabled(account)])
        /\ lastCall' = PluginCall("resolveAccount", TRUE, accountId, FALSE,
                                  Undefined)
        /\ callArgs' = NoArgs
        /\ emitted' = <<>>
        /\ invoked' = <<>>
        /\ UNCHANGED <<heldCfg, chunking>>
        /\ OutboundIdle
        /\ HostOnly

\* What the plugin's outbound.sendText resolves with.
NoConfigResult == [channel |-> "dashbot", ok |-> FALSE, error |-> "no config"]
SentResult(to) == [channel |-> "dashbot", ok |-> TRUE, to |-> to]
Recipients == {"user-1"}

\* outbound.sendText handing the text to a sender built over a connection.
pluginSendText_OverSocket(hasCfg, cfg, to, text, accountId) ==
    IF ~hasCfg
    THEN /\ returned' = Returns(NoConfigResult)
         /\ callArgs' = NoArgs
         /\ emitted' = <<>>
         /\ invoked' = <<>>
         /\ UNCHANGED <<ws, onCardEvent, reconnectTimer, chatSubscribed,
                        cardsSubscribed>>
         /\ OutboundIdle
    ELSE LET account == resolveAccount(cfg, IF accountId = Undefined
                                             THEN DEFAULT_ACCOUNT_ID
                                             ELSE accountId)
             dashbotConfig == [url |-> account.url, token |-> account.token]
         IN /\ sendText(TRUE, dashbotConfig, text, Undefined)
            /\ callArgs' = Args(TRUE, dashbotConfig, NoCard, NoOutcome,
                                NoCallback, Undefined, FALSE)
            /\ returned' = Returns(SentResult(to))

\* outbound.sendText({ to, text, accountId, deps }) of the plugin; hasCfg says
\* whether deps.cfg is there.
pluginSendText(hasCfg, cfg, to, text, accountId) ==
    IF ~hasCfg
    THEN /\ returned' = Returns(NoConfigResult)
         /\ callArgs' = NoArgs
         /\ emitted' = <<>>
         /\ invoked' = <<>>
         /\ UNCHANGED <<ws, onCardEvent, reconnectTimer, chatSubscribed,
                        cardsSubscribed>>
         /\ OutboundIdle
    ELSE LET account == resolveAccount(cfg, IF accountId = Undefined
                                             THEN DEFAULT_ACCOUNT_ID
                                             ELSE accountId)
             dashbotConfig == [url |-> account.url, token |-> account.token]
         IN /\ sendText(FALSE, dashbotConfig, text, Undefined)
            /\ callArgs' = Args(FALSE, dashbotConfig, NoCard, NoOutcome,
                                NoCallback, Undefined, FALSE)
            /\ returned' = Returns(SentResult(to))

PluginSendText ==
    \E hasCfg \in BOOLEAN, to \in Recipients, text \in Contents,
       accountId \in AccountIds \cup {Undefined} :
        /\ ~hasCfg \/ inflight["postResponse"] < MaxInflight
        /\ pluginSendText(hasCfg, heldCfg, to, text, accountId)
        /\ lastCall' = PluginCall("plugin.sendText", hasCfg, accountId, FALSE,
                                  text)
        /\ UNCHANGED <<heldCfg, chunking>>
        /\ HostOnly

\* The plugin's config section over any config.
NextConfig ==
    \/ SetAccountEnabled
    \/ WriteConfig
    \/ ResolveAccount

SpecConfig ==
    /\ Constructed(TestConfig)
    /\ heldCfg \in Cfgs
    /\ [][NextConfig]_vars

\* The plugin's outbound.sendText beside a connection and its socket events.
NextPluginSend ==
    \/ PluginSendText
    \/ RespondFetchEnds
    \/ ConnectWhenIdle
    \/ MessageEvent
    \/ CloseEvent
    \/ TimeoutEvent

SpecPluginSend == Init /\ [][NextPluginSend]_vars

\* outbound.chunker(text, limit) up to its loop.
ChunkerCall ==
    \E text \in Texts, limit \in Limits :
        /\ chunking.pc = "idle"
        /\ IF Len(text) <= limit
           THEN /\ chunking' = ChunkerFrame("idle", text, limit, 0, <<text>>)
                /\ returned' = Returns(<<text>>)
           ELSE /\ chunking' = ChunkerFrame("loop", text, limit, 0, <<>>)
                /\ returned' = NoReturn
        /\ lastCall' = NoInput("chunker", NoSocket)
        /\ callArgs' = NoArgs
        /\ emitted' = <<>>
        /\ invoked' = <<>>
        /\ UNCHANGED heldCfg
        /\ OutboundIdle
        /\ HostOnly

\* One pass of the loop: i < text.length, the push of the slice, i += limit.
\* The chunks array is capped at MaxChunks entries.
ChunkerIterate ==
    /\ chunking.pc = "loop"
    /\ chunking.i < Len(chunking.text)
    /\ Len(chunking.chunks) < MaxChunks
    /\ chunking' =
         [chunking EXCEPT
            !.chunks = Append(@, Slice(chunking.text, chunking.i,
                                       chunking.i + chunking.limit)),
            !.i = @ + chunking.limit]
    /\ returned' = NoReturn
    /\ lastCall' = NoInput("chunker", NoSocket)
    /\ callArgs' = NoArgs
    /\ emitted' = <<>>
    /\ invoked' = <<>>
    /\ UNCHANGED heldCfg
    /\ OutboundIdle
    /\ HostOnly

\* The loop condition fails and the chunker returns its chunks.
ChunkerReturn ==
    /\ chunking.pc = "loop"
    /\ ~(chunking.i < Len(chunking.text))
    /\ chunking' = [chunking EXCEPT !.pc = "idle"]
    /\ returned' = Returns(chunking.chunks)
    /\ lastCall' = NoInput("chunker", NoSocket)
    /\ callArgs' = NoArgs
    /\ emitted' = <<>>
    /\ invoked' = <<>>
    /\ UNCHANGED heldCfg
    /\ OutboundIdle
    /\ HostOnly

NextChunker ==
    \/ ChunkerCall
    \/ ChunkerIterate
    \/ ChunkerReturn

SpecChunker == Init /\ [][NextChunker]_vars

TypeOK ==
    /\ ws \in {NoSocket} \cup SocketIds
    /\ onCardEvent \in BOOLEAN
    /\ reconnectTimer \in {NoTimer} \cup SocketIds
    /\ chatSubscribed \in BOOLEAN
    /\ cardsSubscribed \in BOOLEAN
    /\ readyState \in [SocketIds -> {"NONE", "OPEN", "CLOSING", "CLOSED"}]
    /\ Len(timers) <= MaxSockets
    /\ Len(emitted) <= 2
    /\ Len(invoked) <= 1
    /\ signalAborted \in BOOLEAN
    /\ chunking.pc \in {"idle", "loop"}
    /\ chunking.text \in Texts
    /\ chunking.limit \in Limits
    /\ Len(chunking.chunks) <= MaxChunks
    /\ DOMAIN heldCfg \subseteq {"gateway", "channels"}

\* ----------------------------------------------------------------- claims
IsSend(c) == c.op \in {"sendResponse", "sendStatus"}
IsFrameEvent(c, f) == c.op = "onmessage" /\ c.frame = f
IsBroadcast(c) ==
    /\ c.op = "onmessage"
    /\ "type" \notin c.frame.keys
    /\ "message" \in c.frame.keys
    /\ "identifier" \in c.frame.keys
Callbacks(seq) == {seq[i].cb : i \in 1..Len(seq)}
Commands(seq) == {seq[i].frame.command : i \in 1..Len(seq)}

\* C1: a sendResponse or sendStatus call writes nothing while the socket
\* reference is null or the chat channel is not subscribed; otherwise it
\* writes exactly one "message" command on the chat identifier to the current
\* socket, whose decoded data has action "respond" with the content and
\* metadata of the call, or action "send_status" with its status data.  A
\* "message" command is written by these calls only, and never before a chat
\* Confirmation has been processed.
C1_SendGated ==
    [][ /\ IsSend(lastCall') =>
             IF ws = NoSocket \/ ~chatSubscribed
             THEN emitted' = <<>>
             ELSE /\ Len(emitted') = 1
                  /\ emitted'[1].sock = ws
                  /\ emitted'[1].frame.command = "message"
                  /\ emitted'[1].frame.identifier = CHAT_IDENTIFIER
                  /\ Len(emitted'[1].frame.data) = 1
                  /\ LET d == emitted'[1].frame.data[1] IN
                     IF lastCall'.op = "sendResponse"
                     THEN /\ JSONGet(d, "action") = "respond"
                          /\ JSONGet(d, "content") = lastCall'.content
                          /\ JSONGet(d, "metadata") = lastCall'.metadata
                     ELSE /\ JSONGet(d, "action") = "send_status"
                          /\ JSONGet(d, "status_data") = lastCall'.statusData
        /\ "message" \in Commands(emitted') =>
             IsSend(lastCall') /\ chatConfirmed
      ]_vars

C1_Witness ==
    /\ lastCall.op = "sendResponse"
    /\ lastCall.metadata # Undefined
    /\ Len(emitted) = 1
    /\ emitted[1].frame.command = "message"

\* C2: a Welcome frame handled while a current socket exists writes exactly
\* two commands to the current socket, subscribe chat and then subscribe
\* cards, in the same step, with no subscription flag changed; no other step
\* writes a subscribe command.
C2_WelcomeSubscribes ==
    [][ /\ (IsFrameEvent(lastCall', WelcomeFrame) /\ ws # NoSocket) =>
             /\ emitted' =
                  << [sock |-> ws,
                      frame |-> CableCommand("subscribe", CHAT_IDENTIFIER, <<>>)],
                     [sock |-> ws,
                      frame |-> CableCommand("subscribe", CARDS_IDENTIFIER, <<>>)] >>
             /\ UNCHANGED <<ws, chatSubscribed, cardsSubscribed>>
        /\ "subscribe" \in Commands(emitted') =>
             IsFrameEvent(lastCall', WelcomeFrame)
      ]_vars

C2_Witness ==
    /\ IsFrameEvent(lastCall, WelcomeFrame)
    /\ Len(emitted) = 2
    /\ ~chatSubscribed

C4_NoSocketAfterDisconnect ==
    [][ (disconnected /\ Created' # Created) => lastCall'.op = "connect" ]_vars

\* C5: an event of a socket that disconnect() released invokes no callback,
\* changes no subscription flag and arms no timeout.
C5_ReleasedSocketIsSilent ==
    [][ (/\ lastCall'.op \in {"onclose", "onmessage"}
         /\ readyState[lastCall'.sock] = "CLOSING") =>
             /\ invoked' = <<>>
             /\ timers' = timers
             /\ UNCHANGED <<chatSubscribed, cardsSubscribed, reconnectTimer>>
      ]_vars

\* C6: chatSubscribed is true only while the socket reference is non-null.
C6_SubscribedHasSocket == chatSubscribed => ws # NoSocket

\* C7: at most one reconnect timeout is pending.
C7_OneTimer == Len(timers) <= 1

\* C8: a cards broadcast never invokes the chat callback, and invokes nothing
\* when no card handler is registered; a chat broadcast never invokes the
\* card callback.
C8_NoCrossDelivery ==
    [][ IsBroadcast(lastCall') =>
          /\ lastCall'.frame.identifier = CARDS_IDENTIFIER =>
               /\ "onMessage" \notin Callbacks(invoked')
               /\ ~onCardEvent => invoked' = <<>>
          /\ lastCall'.frame.identifier = CHAT_IDENTIFIER =>
               "onCardEvent" \notin Callbacks(invoked')
      ]_vars

C8_Witness ==
    /\ IsBroadcast(lastCall)
    /\ lastCall.frame.identifier = CARDS_IDENTIFIER
    /\ ~onCardEvent
    /\ invoked = <<>>

\* C9: a broadcast whose identifier is neither the chat nor the cards
\* identifier invokes no callback.
C9_UnknownChannelDropped ==
    (/\ IsBroadcast(lastCall)
     /\ lastCall.frame.identifier \notin {CHAT_IDENTIFIER, CARDS_IDENTIFIER})
        => invoked = <<>>

\* C10: a Ping frame invokes no callback, writes nothing, and leaves the
\* subscription flags, the socket reference and sockets, the timer handle and
\* the pending timeouts as they were.
C10_PingNoEffect ==
    [][ IsFrameEvent(lastCall', PingFrame) =>
          /\ invoked' = <<>>
          /\ emitted' = <<>>
          /\ UNCHANGED <<ws, onCardEvent, reconnectTimer, chatSubscribed,
                         cardsSubscribed, readyState, timers>>
      ]_vars

C10_Witness ==
    /\ IsFrameEvent(lastCall, PingFrame)
    /\ chatSubscribed
    /\ ws # NoSocket
    /\ timers # <<>>

\* C11: disconnect() leaves no timeout pending, leaves the socket it held not
\* open, nulls the socket reference and clears both flags.
C11_DisconnectCleans ==
    [][ lastCall'.op = "disconnect" =>
          /\ timers' = <<>>
          /\ ws' = NoSocket
          /\ ws # NoSocket => readyState'[ws] # "OPEN"
          /\ ~chatSubscribed'
          /\ ~cardsSubscribed'
      ]_vars

\* The body of an HTTP request names these keys, in this order.
BodyKeys(r) == [i \in 1..Len(r.body) |-> r.body[i][1]]
RespondUrl == BaseUrl \o <<"/api/messages/respond">>
CardsUrl == BaseUrl \o <<"/api/cards">>
Bearer(r) == r.authorization = <<"Bearer ", callArgs'.config.token>>

C15_FallsBackWhenNotConnected ==
    [][ (lastCall'.op = "sendText" /\ ~isConnected) =>
          /\ Len(httpRequests') = 1
          /\ httpRequests'[1].method = "POST"
          /\ httpRequests'[1].url = RespondUrl
      ]_vars

C17_HttpFailureLogged ==
    [][ lastCall'.op = "postResponse" =>
          /\ Len(settled') = 1
          /\ settled'[1].fn = "postResponse"
          /\ settled'[1].state = "fulfilled"
          /\ (callArgs'.response.kind = "exception" \/ ~callArgs'.response.ok)
               => consoleErrors' # <<>>
          /\ httpRequests' = <<>>
          /\ inflight'["postResponse"] < inflight["postResponse"]
          /\ inflight'["postCard"] = inflight["postCard"]
          /\ timers' = timers
          /\ emitted' = <<>>
      ]_vars

C17_Witness ==
    /\ lastCall.op = "postResponse"
    /\ callArgs.response = NetworkError
    /\ consoleErrors # <<>>
    /\ settled # <<>>

\* sendCard issues one POST to <base>/api/cards whether or not a connection is
\* supplied, and writes nothing to a socket.
SendCardOverHttp ==
    lastCall'.op = "sendCard" =>
      /\ emitted' = <<>>
      /\ Len(httpRequests') = 1
      /\ LET r == httpRequests'[1] IN
           /\ r.method = "POST"
           /\ r.url = CardsUrl
           /\ Bearer(r)
           /\ JSONGet(r.body, "type") =
                IF callArgs'.card.type = Undefined THEN "confirm"
                ELSE callArgs'.card.type
           /\ JSONGet(r.body, "prompt") = callArgs'.card.prompt
           /\ JSONGet(r.body, "options") = callArgs'.card.options

C19_StartOnce ==
    [][ /\ (lastCall'.op = "start" /\ active) =>
             /\ reporterLog' = <<AlreadyActive>>
             /\ pushed' = <<>>
             /\ UNCHANGED <<active, timer, sendCallback, intervals, callCount>>
        /\ (lastCall'.op = "start" /\ ~active) =>
             /\ sendCallback' = callArgs'.cb
             /\ Cardinality(intervals') = 1
             /\ \A t \in intervals' : t.id = timer' /\ t.ms = INTERVAL_MS
        /\ Cardinality(intervals') <= 1
        /\ (lastCall'.op = "tick" /\ active) =>
             /\ sendCallback' = sendCallback
             /\ pushed' = IF callArgs'.gather = GatherThrows THEN <<>>
                          ELSE <<[cb |-> sendCallback,
                                  data |-> callArgs'.gather]>>
             /\ \A cb \in TestCallbacks :
                  callCount'[cb] = callCount[cb]
                    + (IF cb = sendCallback /\ pushed' # <<>> THEN 1 ELSE 0)
      ]_vars

\* A start on an active reporter, naming another callback than the first.
C19_Witness ==
    /\ lastCall.op = "start"
    /\ active
    /\ reporterLog = <<AlreadyActive>>
    /\ callArgs.cb # sendCallback
    /\ callCount[sendCallback] >= 2

\* C20: stop() leaves the reporter inactive with no timer, no callback and no
\* pending interval, whether or not it was active; while the reporter is
\* inactive no interval is pending and nothing is pushed by any step but a
\* start.
C20_StopHalts ==
    [][ /\ lastCall'.op = "stop" =>
             /\ ~active'
             /\ timer' = NoTimer
             /\ sendCallback' = NoCallback
             /\ intervals' = {}
             /\ pushed' = <<>>
             /\ callCount' = callCount
        /\ ~active' => intervals' = {}
        /\ (~active /\ lastCall'.op # "start") =>
             /\ pushed' = <<>>
             /\ callCount' = callCount
      ]_vars

\* stop() on a reporter that pushed at start and at a tick.
C20_Witness ==
    /\ lastCall.op = "stop"
    /\ ~active
    /\ \E cb \in TestCallbacks : callCount[cb] >= 2

\* C12: the abort step of a started account leaves the status reporter
\* inactive with no interval pending, the HTTP fallback loop stopped, the
\* socket reference null and the socket it named not open, no reconnect
\* timeout pending, both subscription flags false, and the promise of
\* startAccount resolved.
C12_AbortTearsDown ==
    [][ lastCall'.op = "abort" =>
          /\ ~active'
          /\ timer' = NoTimer
          /\ intervals' = {}
          /\ sendCallback' = NoCallback
          /\ ~fallback'
          /\ ws' = NoSocket
          /\ ws # NoSocket => readyState'[ws] # "OPEN"
          /\ reconnectTimer' = NoTimer
          /\ timers' = <<>>
          /\ ~chatSubscribed'
          /\ ~cardsSubscribed'
          /\ resolved'
      ]_vars

\* The abort of an account whose reporter was active on a subscribed socket.
C12_Witness ==
    /\ lastCall.op = "abort"
    /\ resolved
    /\ chatConfirmed
    /\ ~active
    /\ \E s \in SocketIds : readyState[s] = "CLOSING"

\* C13: once the abort has been handled, no step opens a socket, arms a
\* timeout, writes a frame, dispatches an inbound message or leaves the
\* status reporter active.
C13_NothingAfterAbort ==
    [][ aborted =>
          /\ Created' = Created
          /\ Len(timers') <= Len(timers)
          /\ emitted' = <<>>
          /\ dispatched' = <<>>
          /\ ~active'
      ]_vars

\* C21: a start call on an inactive reporter marks it active, runs the
\* snapshot-and-push sequence once in the same step (one push of the gathered
\* data to the callback given, or one logged failure) and arms one interval
\* of the configured period; while the reporter is active that interval stays
\* pending and each of its ticks runs the sequence once; only stop makes an
\* active reporter inactive.
C21_StartReportsThenTicks ==
    [][ /\ (lastCall'.op = "start" /\ ~active) =>
             /\ active'
             /\ pushed' = IF callArgs'.gather = GatherThrows THEN <<>>
                          ELSE <<[cb |-> callArgs'.cb,
                                  data |-> callArgs'.gather]>>
             /\ (ReportFailed \in {reporterLog'[i] : i \in 1..Len(reporterLog')})
                  <=> (callArgs'.gather = GatherThrows \/ callArgs'.cbThrows)
             /\ intervals' = {[id |-> timer', ms |-> INTERVAL_MS]}
        /\ active' => intervals' = {[id |-> timer', ms |-> INTERVAL_MS]}
        /\ (lastCall'.op = "tick" /\ active) =>
             /\ Len(pushed') = (IF callArgs'.gather = GatherThrows THEN 0 ELSE 1)
             /\ \A i \in 1..Len(pushed') :
                  pushed'[i] = [cb |-> sendCallback, data |-> callArgs'.gather]
        /\ (active /\ ~active') => lastCall'.op = "stop"
      ]_vars

\* A tick that pushed, after the push of the start.
C21_Witness ==
    /\ lastCall.op = "tick"
    /\ active
    /\ Len(pushed) = 1
    /\ pushed[1].cb = sendCallback
    /\ callCount[sendCallback] = 2

\* C22: a tick in which gathering the status or the callback throws logs the
\* failure and changes nothing else: the reporter stays active with the same
\* timer, interval and callback; the tick after a failed one pushes when its
\* gathering succeeds.
C22_FailedTickSkipped ==
    [][ /\ ( /\ lastCall'.op = "tick"
             /\ active
             /\ (callArgs'.gather = GatherThrows \/ callArgs'.cbThrows) ) =>
               /\ reporterLog' = <<ReportFailed>>
               /\ callArgs'.gather = GatherThrows => pushed' = <<>>
               /\ active'
               /\ timer' = timer
               /\ timer' # NoTimer
               /\ intervals' = intervals
               /\ intervals' # {}
               /\ sendCallback' = sendCallback
        /\ ( /\ lastCall.op = "tick"
             /\ (callArgs.gather = GatherThrows \/ callArgs.cbThrows)
             /\ lastCall'.op = "tick"
             /\ callArgs'.gather # GatherThrows ) =>
               pushed' = <<[cb |-> sendCallback, data |-> callArgs'.gather]>>
      ]_vars

\* A tick whose gathering threw, on a reporter still active and armed.
C22_Witness ==
    /\ lastCall.op = "tick"
    /\ callArgs.gather = GatherThrows
    /\ reporterLog = <<ReportFailed>>
    /\ active
    /\ intervals # {}

\* C23: startAccount starts the HTTP fallback loop in the step that opens
\* the socket; the loop then runs for as long as the account is started and
\* not aborted, whatever frames arrive (status_requested and status_stopped
\* included) and whether or not the status reporter is active; the abort step
\* stops it, and no other step starts or stops it.
C23_FallbackAlongside ==
    [][ /\ lastCall'.op = "startAccount" => (fallback' /\ ws' # NoSocket)
        /\ lastCall'.op = "abort" => ~fallback'
        /\ lastCall'.op \notin {"startAccount", "abort"} => fallback' = fallback
        /\ (started' /\ ~aborted') => fallback'
      ]_vars

\* A status_stopped broadcast was handled and the fallback loop still runs.
C23_Witness ==
    /\ lastCall.op = "onmessage"
    /\ lastCall.frame.message.type = "status_stopped"
    /\ started
    /\ ~active
    /\ fallback

\* C24: a broadcast whose message has type status_requested leaves the status
\* reporter active, and one of type status_stopped leaves it inactive,
\* whichever identifier the frame carries.
C24_StatusControlAnyChannel ==
    [][ IsBroadcast(lastCall') =>
          /\ lastCall'.frame.message.type = "status_requested" => active'
          /\ lastCall'.frame.message.type = "status_stopped" => ~active'
      ]_vars

\* C25: a step dispatches to the agent only when it handles a broadcast on the
\* chat identifier whose message has type "message" and role "user", and it
\* dispatches that message; a broadcast with another role dispatches nothing
\* and starts no dispatch, and a deliver step dispatches nothing.
C25_OnlyUserChatDispatched ==
    [][ /\ dispatched' # <<>> =>
             /\ IsBroadcast(lastCall')
             /\ lastCall'.frame.identifier = CHAT_IDENTIFIER
             /\ lastCall'.frame.message.type = "message"
             /\ lastCall'.frame.message.role = "user"
             /\ dispatched' = <<lastCall'.frame.message>>
        /\ (IsBroadcast(lastCall') /\ lastCall'.frame.message.role # "user") =>
             /\ dispatched' = <<>>
             /\ dispatching' = dispatching
        /\ lastCall'.op = "deliver" => dispatched' = <<>>
      ]_vars

\* The connection's own fields and its socket environment.
ConnectionState ==
    <<ws, onCardEvent, reconnectTimer, chatSubscribed, cardsSubscribed,
      readyState, timers>>

\* C26: a message event whose data is not JSON, is not an object, has an
\* unknown type, or has neither a type nor both identifier and message, lets
\* no exception out of the handler, invokes no callback, writes no frame and
\* leaves the connection's state as it was.
C26_MalformedIgnored ==
    [][ ( /\ lastCall'.op = "onmessage"
          /\ lastCall'.frame \in {NoFrame, UnknownTypeFrame, IdentifierOnlyFrame,
                                  EmptyFrame} ) =>
            /\ returned'.thrown = Undefined
            /\ invoked' = <<>>
            /\ emitted' = <<>>
            /\ ConnectionState' = ConnectionState
      ]_vars

\* C27: connect(), called directly or by the reconnect timeout, throws
\* nothing.
C27_ConnectNeverThrows ==
    [][ lastCall'.op \in {"connect", "timer"} => returned'.thrown = Undefined
      ]_vars

\* decodeURIComponent, for the characters EncodeChar escapes.
DecodeChar(c) ==
    CASE c = "%26" -> "&"
      [] c = "%3D" -> "="
      [] c = "%20" -> " "
      [] c = "%2F" -> "/"
      [] OTHER -> c
Reserved == {"&", "=", " ", "/", "?", "#"}

C29_IsConnected ==
    [][ /\ lastCall'.op = "isConnected" =>
             returned'.value = (chatSubscribed /\ ws # NoSocket)
        /\ IsFrameEvent(lastCall', ConfirmFrame(CARDS_IDENTIFIER)) =>
             /\ chatSubscribed' = chatSubscribed
             /\ isConnected' = isConnected
        /\ IsFrameEvent(lastCall', ConfirmFrame(CHAT_IDENTIFIER)) =>
             /\ chatSubscribed'
             /\ cardsSubscribed' = cardsSubscribed
             /\ ws # NoSocket => isConnected'
      ]_vars

\* isConnected() returned true with the cards channel never confirmed.
C29_Witness ==
    /\ lastCall.op = "isConnected"
    /\ returned.value = TRUE
    /\ ~cardsSubscribed

Closed(s) == lastCall.op = "onclose" /\ lastCall.sock = s
Resubscribed(s) ==
    /\ ws > s
    /\ IsFrameEvent(lastCall, WelcomeFrame)
    /\ lastCall.sock = ws
    /\ {emitted[i].frame.identifier :
          i \in {j \in 1..Len(emitted) :
                   /\ emitted[j].sock = ws
                   /\ emitted[j].frame.command = "subscribe"}}
         = {CHAT_IDENTIFIER, CARDS_IDENTIFIER}

\* C30: when disconnect() is never called, the reconnect timeout fires when
\* due and the server answers an open socket with Welcome and a chat
\* Confirmation, every close event of a socket is followed by a step that
\* writes the two subscribe commands to a socket made later, and by a state
\* in which isConnected() holds on a socket made later.
C30_Reconnects ==
    \A s \in SocketIds :
        /\ Closed(s) ~> Resubscribed(s)
        /\ Closed(s) ~> (isConnected /\ ws > s)

\* Connected and subscribed again on a second socket after the first closed.
C30_Witness ==
    /\ isConnected
    /\ ws > 1
    /\ readyState[1] = "CLOSED"
    /\ readyState[ws] = "OPEN"
    /\ ~disconnected

\* The sockets that are not closed; their handlers stay attached.
Live == {s \in SocketIds : readyState[s] \in {"OPEN", "CLOSING"}}

\* C33: at most one socket made by the connection is live (not closed, its
\* handlers attached) at any time.
C33_OneLiveSocket == Cardinality(Live) <= 1

\* C34: a chat Confirmation or a close event of a socket that is not the
\* current one leaves chatSubscribed as it was, so it neither enables nor
\* disables the writing of "message" frames to the current socket.
C34_OtherSocketCannotGate ==
    [][ ( /\ \/ IsFrameEvent(lastCall', ConfirmFrame(CHAT_IDENTIFIER))
             \/ lastCall'.op = "onclose"
          /\ ws # NoSocket
          /\ lastCall'.sock # ws ) =>
            chatSubscribed' = chatSubscribed
      ]_vars

\* C35: a chat or cards Confirmation handled right after the socket was made,
\* before any Welcome was handled and any subscribe command written on it,
\* does not mark the channel subscribed.
C35_ConfirmNeedsSubscribe ==
    [][ ( /\ lastCall.op \in {"connect", "timer"}
          /\ lastCall'.op = "onmessage"
          /\ lastCall'.sock = ws ) =>
            /\ lastCall'.frame = ConfirmFrame(CHAT_IDENTIFIER) => ~chatSubscribed'
            /\ lastCall'.frame = ConfirmFrame(CARDS_IDENTIFIER) => ~cardsSubscribed'
      ]_vars

\* A status_stopped broadcast that reaches the account's callback.
IsStatusStopped(c) ==
    /\ IsBroadcast(c)
    /\ c.frame.identifier # CARDS_IDENTIFIER
    /\ c.frame.message.type = "status_stopped"

\* C36: a tick of the started status loop writes one send_status frame to the
\* current socket when isConnected() holds and the snapshot was gathered, and
\* nothing otherwise; the loop stays active with its interval pending through
\* close events, reconnects and Confirmations, and only a status_stopped
\* broadcast or the abort ends it.
C36_StatusLoopGated ==
    [][ /\ lastCall'.op = "tick" =>
             IF /\ chatSubscribed
                /\ ws # NoSocket
                /\ sendCallback = ChannelCallback
                /\ callArgs'.gather # GatherThrows
             THEN /\ Len(emitted') = 1
                  /\ emitted'[1].sock = ws
                  /\ emitted'[1].frame.command = "message"
                  /\ emitted'[1].frame.identifier = CHAT_IDENTIFIER
                  /\ JSONGet(emitted'[1].frame.data[1], "action") = "send_status"
                  /\ JSONGet(emitted'[1].frame.data[1], "status_data")
                       = callArgs'.gather
             ELSE emitted' = <<>>
        /\ (active /\ ~(lastCall'.op = "abort" \/ IsStatusStopped(lastCall'))) =>
             /\ active'
             /\ sendCallback' = sendCallback
             /\ intervals' = intervals
             /\ intervals' # {}
      ]_vars

\* A tick on a socket made by a reconnect pushes a snapshot.
C36_Witness ==
    /\ lastCall.op = "tick"
    /\ active
    /\ ws > 1
    /\ Len(emitted) = 1
    /\ emitted[1].sock = ws
    /\ \E s \in SocketIds : s < ws /\ readyState[s] = "CLOSED"

\* C37: isActive() is true exactly when an interval is armed and exactly when
\* a push callback is set, and at most one interval exists.
C37_ActiveTimerCallback ==
    /\ active <=> timer # NoTimer
    /\ active <=> sendCallback # NoCallback
    /\ Cardinality(intervals) <= 1
    /\ timer # NoTimer <=> intervals = {[id |-> timer, ms |-> INTERVAL_MS]}
    /\ timer = NoTimer <=> intervals = {}

\* A restarted reporter has just ticked.
C37_Witness ==
    /\ lastCall.op = "tick"
    /\ active
    /\ timer # NoTimer
    /\ sendCallback = "cb2"
    /\ callCount["cb1"] >= 1
    /\ pushed # <<>>

\* C38: the promise startAccount returned is resolved only once the signal
\* has aborted, and whenever the account is started and the signal aborted,
\* the abort listener has run and the promise is resolved.
C38_ResolvesOnAbort ==
    /\ resolved => signalAborted
    /\ (started /\ signalAborted) => (aborted /\ resolved)

\* b has the keys and values of a, except possibly at key k.
SameExcept(a, b, k) ==
    /\ DOMAIN b = DOMAIN a \cup {k}
    /\ \A x \in DOMAIN a \ {k} : b[x] = a[x]

\* The top-level dashbot block of a config and its named accounts.
TopBlock(cfg) ==
    IF "channels" \in DOMAIN cfg /\ "dashbot" \in DOMAIN cfg["channels"]
    THEN cfg["channels"]["dashbot"]
    ELSE EmptyObject
NamedAccounts(cfg) ==
    IF "accounts" \in DOMAIN TopBlock(cfg) THEN TopBlock(cfg)["accounts"]
    ELSE EmptyObject
NonBlank(s) == \E i \in 1..Len(s) : s[i] # " "

\* C31: setAccountEnabled returns a config that differs from its input only
\* in the enabled flag of the addressed account (at the top level for
\* "default", inside the accounts block for a named one); the input is left as
\* it was, every other account resolves as before, and resolveAccount on the
\* result reports the value set.
C31_SetAccountEnabled ==
    [][ lastCall'.op = "setAccountEnabled" =>
          LET cfg == heldCfg
              r == returned'.value
              id == lastCall'.accountId
              en == lastCall'.enabled
              channels == IF "channels" \in DOMAIN cfg THEN cfg["channels"]
                          ELSE EmptyObject
              acct == IF id \in DOMAIN NamedAccounts(cfg)
                      THEN NamedAccounts(cfg)[id] ELSE EmptyObject
          IN /\ heldCfg' = heldCfg
             /\ SameExcept(cfg, r, "channels")
             /\ SameExcept(channels, r["channels"], "dashbot")
             /\ IF id = DEFAULT_ACCOUNT_ID
                THEN /\ SameExcept(TopBlock(cfg), TopBlock(r), "enabled")
                     /\ TopBlock(r)["enabled"] = en
                ELSE /\ SameExcept(TopBlock(cfg), TopBlock(r), "accounts")
                     /\ SameExcept(NamedAccounts(cfg), NamedAccounts(r), id)
                     /\ SameExcept(acct, NamedAccounts(r)[id], "enabled")
                     /\ NamedAccounts(r)[id]["enabled"] = en
             /\ resolveAccount(r, id).enabled = en
             /\ resolveAccount(r, id).url = resolveAccount(cfg, id).url
             /\ resolveAccount(r, id).token = resolveAccount(cfg, id).token
             /\ \A other \in AccountIds \ {id} :
                  resolveAccount(r, other) = resolveAccount(cfg, other)
      ]_vars

\* The disabled staging account was enabled beside the dev account.
C31_Witness ==
    /\ lastCall.op = "setAccountEnabled"
    /\ lastCall.accountId = "staging"
    /\ lastCall.enabled
    /\ {"dev", "staging"} \subseteq DOMAIN NamedAccounts(heldCfg)
    /\ ~resolveAccount(heldCfg, "staging").enabled
    /\ resolveAccount(returned.value, "staging").enabled
    /\ resolveAccount(heldCfg, DEFAULT_ACCOUNT_ID).enabled

\* C32: resolveAccount reads "default" from the top-level dashbot block and a
\* named id from its accounts entry; an id with no entry gives empty url and
\* token and is not configured; enabled is true unless the source has enabled
\* set to false; isConfigured holds exactly when url and token both have a
\* character that is not blank.
C32_ResolveAccount ==
    [][ lastCall'.op = "resolveAccount" =>
          LET id == lastCall'.accountId
              a == returned'.value.account
              known == id \in DOMAIN NamedAccounts(heldCfg)
              source == IF id = DEFAULT_ACCOUNT_ID THEN TopBlock(heldCfg)
                        ELSE IF known THEN NamedAccounts(heldCfg)[id]
                        ELSE EmptyObject
          IN /\ a.accountId = id
             /\ \A f \in {"url", "token"} :
                  a[f] = IF f \in DOMAIN source THEN source[f] ELSE <<>>
             /\ (id # DEFAULT_ACCOUNT_ID /\ ~known) =>
                  /\ a.url = <<>>
                  /\ a.token = <<>>
                  /\ ~returned'.value.isConfigured
             /\ a.enabled = ~("enabled" \in DOMAIN source /\ ~source["enabled"])
             /\ returned'.value.isEnabled = a.enabled
             /\ returned'.value.isConfigured
                  <=> (NonBlank(a.url) /\ NonBlank(a.token))
      ]_vars

\* The staging entry resolved: configured and disabled.
C32_Witness ==
    /\ lastCall.op = "resolveAccount"
    /\ lastCall.accountId = "staging"
    /\ "staging" \in DOMAIN NamedAccounts(heldCfg)
    /\ returned.value.account.token = <<"staging-token">>
    /\ ~returned.value.account.enabled
    /\ returned.value.isConfigured

\* C39: the plugin's outbound.sendText without deps.cfg returns ok false with
\* error "no config" and issues no request; with it, it writes nothing to a
\* socket, issues one POST to the respond endpoint carrying the text, and
\* returns ok true while that POST is still pending; the POST's outcome
\* rejects nothing.
C39_PluginSendText ==
    [][ /\ lastCall'.op = "plugin.sendText" =>
             /\ emitted' = <<>>
             /\ returned'.thrown = Undefined
             /\ IF ~lastCall'.hasCfg
                THEN /\ returned'.value = [channel |-> "dashbot", ok |-> FALSE,
                                           error |-> "no config"]
                     /\ httpRequests' = <<>>
                     /\ inflight' = inflight
                ELSE /\ Len(httpRequests') = 1
                     /\ httpRequests'[1].method = "POST"
                     /\ httpRequests'[1].url[Len(httpRequests'[1].url)]
                          = "/api/messages/respond"
                     /\ JSONGet(httpRequests'[1].body, "content")
                          = lastCall'.content
                     /\ returned'.value.ok
                     /\ returned'.value.channel = "dashbot"
                     /\ inflight'["postResponse"] = inflight["postResponse"] + 1
                     /\ settled' = <<>>
        /\ lastCall'.op = "postResponse" =>
             /\ Len(settled') = 1
             /\ settled'[1].state = "fulfilled"
      ]_vars

\* The text was posted while a subscribed socket was open.
C39_Witness ==
    /\ lastCall.op = "plugin.sendText"
    /\ lastCall.hasCfg
    /\ ws # NoSocket
    /\ chatSubscribed
    /\ emitted = <<>>
    /\ Len(httpRequests) = 1
    /\ returned.value.ok

\* The chunks joined in order.
RECURSIVE Concat(_)
Concat(chunks) ==
    IF chunks = <<>> THEN <<>> ELSE Head(chunks) \o Concat(Tail(chunks))

\* What the chunker returned for a limit of one or more rebuilds the text.
ChunksRebuildText ==
    (lastCall.op = "chunker" /\ chunking.pc = "idle" /\ chunking.limit >= 1) =>
        LET chunks == returned.value
        IN /\ Concat(chunks) = chunking.text
           /\ \A k \in 1..Len(chunks) : Len(chunks[k]) <= chunking.limit
           /\ \A k \in 1..(Len(chunks) - 1) : Len(chunks[k]) = chunking.limit
           /\ Len(chunking.text) <= chunking.limit => chunks = <<chunking.text>>

\* C40: every pass of the chunker's loop moves i closer to text.length, so the
\* loop ends for every text and every integer limit; and for a limit of one or
\* more the chunks returned rebuild the text, none longer than the limit and
\* all but the last of exactly that length.
C40_ChunkerTerminates ==
    /\ [][ (chunking.pc = "loop" /\ chunking'.pc = "loop") =>
             Len(chunking.text) - chunking'.i < Len(chunking.text) - chunking.i
         ]_vars
    /\ []ChunksRebuildText

====
